---- MODULE Spec2Model ----
(***************************************************************************)
(* Belt-wearable ECG pipeline (deployment/): the serial frame reader of    *)
(* deploy_acquisition.py, the windower of deploy_segmentation.py and the   *)
(* recording control of the acquisition process, with the sender's frame   *)
(* layout of deploy_pico.py.                                               *)
(*                                                                         *)
(* Bytes are naturals 0..255, a byte string is a sequence of bytes.  The   *)
(* sizes are the program's own (256 samples of 6 bytes per frame, a        *)
(* 6-byte marker, 1024-sample windows with 256 samples of overlap).        *)
(***************************************************************************)
EXTENDS Integers, Sequences, FiniteSets, TLC

VARIABLES
    stream,         \* every byte the serial device delivers, in wire order
    cyclic,         \* TRUE: the device repeats `stream` for ever (an endless recording)
    pos,            \* bytes of the stream the reader has consumed
    arrived,        \* bytes of the stream that reached the input buffer
    running,        \* AcquisitionProcess.running
    recording,      \* AcquisitionProcess.recording
    packet_count,   \* acquisition_loop's local packet_count
    packet_queue,   \* the packet queue: payloads in put order
    packet_at,      \* per queued payload, the stream offset of its first byte (history)
    status_queue,   \* the status queue: messages in put order
    read_calls,     \* calls of _read_packet made by acquisition_loop (history)
    last_ret,       \* what the last _read_packet call returned: "packet" or "none"
    last_depth,     \* nested _read_packet calls inside the last call (history)
    last_lim,       \* how far the stream had come in during the last call (history)
    drops,          \* bytes-lost events the transport has suffered (history)
    segment_buffer, \* SegmentationProcess.segment_buffer: <<timestamp_ms, adc_value>> pairs
    overlap_buffer, \* SegmentationProcess.overlap_buffer
    segment_count,  \* SegmentationProcess.segment_count
    segment_queue,  \* the segment queue: segments in put order
    emitted,        \* every segment ever put on the segment queue (history)
    sent,           \* the samples of every packet put on the packet queue (history)
    rec_start,      \* start_time_ms of the recording the windower is fed from
    next_frame,     \* index of the next frame the sender produces
    frames_lost,    \* frames that never made it to the packet queue (history)
    packets_put,    \* packets put on the packet queue for the windower (history)
    packets_consumed, \* packets the windower has taken and unpacked (history)
    exiting,        \* AcquisitionProcess.exiting
    ser_open,       \* the serial port is open (ser.is_open)
    ser_out,        \* the command lines written to the serial port, in order
    inf_control_queue, \* the control channel to the inference process
    pc,             \* where the button-callback thread and the main thread are
    presses,        \* presses of the record button so far (history)
    starts,         \* times recording was set to true (history)
    stops,          \* times recording went from true to false (history)
    inference_queue,  \* the inference queue: processed segments in put order
    processed_count,  \* FilteringProcess.processed_count
    filter_log,       \* per segment the filter took: <<segment_id, outcome>> (history)
    inf_pc,           \* where inference_loop is in its iteration: "control" or "segment"
    interpreter,      \* InferenceProcess.interpreter: "None" or "loaded"
    session_active,   \* inference_loop's local session_active
    current_session,  \* InferenceProcess.current_session: <<>> (None) or <<name>>
    signal_file,      \* the open signal file: <<>> (None) or <<name>>
    filtered_file,    \* the open filtered file: <<>> (None) or <<name>>
    annotation_file,  \* the open annotation file: <<>> (None) or <<name>>
    files,            \* the output directory: session name -> rows of its three files
    inference_count,  \* InferenceProcess.inference_count
    samples_written,  \* InferenceProcess.samples_written
    now,              \* the wall clock second inference_loop read last
    taken,            \* per segment inference_loop dequeued, what was done with it (history)
    orch_running,     \* ECGPipeline.running, in the orchestrator process
    orch_pc,          \* where the orchestrator is: "monitor", "shutdown", "join", "close", "done"
    join_idx,         \* the process shutdown_pipeline is at in self.processes
    join_waited,      \* receive-timeout intervals the current join has waited
    worker_state,     \* per worker process: "loop", "cleanup", "exited" or "terminated"
    worker_running,   \* per worker process, its own running attribute
    interrupted,      \* per worker process, a KeyboardInterrupt is pending
    iterated,         \* per worker, its loop condition was evaluated in this interval
    elapsed,          \* receive-timeout intervals since shutdown_pipeline cleared running
    chan_name,        \* the data queue looked at on its own
    chan,             \* its items, oldest first
    put_pc,           \* its producer: "loop" (at the loop condition) or "put" (inside put)
    put_count,        \* items its producer has put
    received,         \* items its consumer has received, in order
    consumer_alive,   \* its consumer process is still running
    last_get,         \* how its consumer's last get ended: "none", "item" or "empty"
    norm_in,          \* the filtered core window normalize_segment is called with
    norm_out,         \* what it returned for it, <<>> before the call
    is_recording,     \* the sender's ECGAcquisition.is_recording
    buffer_index,     \* the sender's ECGAcquisition.buffer_index
    timer_on,         \* the sender's sampling timer is running
    snd_pc,           \* where the sender's main thread is in check_command
    snd_stdin,        \* command lines waiting on the sender's stdin
    snd_out,          \* what the sender has written to its stdout, write by write
    snd_rec,          \* recordings the sender has started (history)
    snd_samples,      \* timer callbacks that have run (history)
    snd_cmds,         \* command lines the sender has been sent (history)
    scan,             \* the last _find_marker call: <<>> or <<[from, lim, found, pos]>>
    rec_marks,        \* per restart of the recording, the samples sent before it (history)
    in_buf,           \* whole frames waiting in the serial input buffer: the recording of each
    dev_rec,          \* the recording the sender is sampling for, 0 when it is not recording
    dev_seen,         \* command lines of ser_out the sender has acted on
    dev_frames,       \* frames the sender has sent (history)
    held,             \* acquisition_loop's packet_data between read and put: <<>> or <<frame>>
    put_log,          \* per packet put by acquisition_loop: its frame and the time of the put (history)
    flt_in,           \* the segment process_segment is called with: <<>> or <<segment>>
    flt_out,          \* what that call returned: <<>> or <<processed segment>>
    flt_count,        \* calls of process_segment so far (history)
    lib_calls         \* the scipy calls the filtering process has made, in order (history)

serVars == <<stream, cyclic, pos, arrived, drops>>
acqVars == <<running, recording, packet_count, read_calls, last_ret, last_depth, last_lim>>
segVars == <<segment_buffer, overlap_buffer, segment_count, segment_queue, emitted,
             packets_consumed>>
feedVars == <<sent, rec_start, next_frame, frames_lost, packets_put>>

ctlVars == <<exiting, ser_open, ser_out, inf_control_queue, pc, presses, starts, stops>>

filtVars == <<inference_queue, processed_count, filter_log>>

infVars == <<inf_pc, interpreter, session_active, current_session, signal_file,
             filtered_file, annotation_file, files, inference_count, samples_written,
             now, taken>>

lifeVars == <<orch_running, orch_pc, join_idx, join_waited, worker_state,
              worker_running, interrupted, iterated, elapsed>>

\* the orchestrator's view of the processes
chanVars == <<chan_name, chan, put_pc, put_count, received, consumer_alive, last_get>>
normVars == <<norm_in, norm_out>>
sndVars == <<is_recording, buffer_index, timer_on, snd_pc, snd_stdin, snd_out, snd_rec,
             snd_samples, snd_cmds>>
raceVars == <<in_buf, dev_rec, dev_seen, dev_frames, held, put_log>>
recVars == <<rec_marks, raceVars>>
libVars == <<flt_in, flt_out, flt_count, lib_calls>>
restVars == <<normVars, sndVars, scan, recVars, libVars>>
laterVars == <<lifeVars, chanVars, restVars>>

\* the stages downstream of the windower, and the orchestrator
moreVars == <<filtVars, infVars, laterVars>>

vars == <<serVars, acqVars, packet_queue, packet_at, status_queue, segVars, feedVars,
          ctlVars, moreVars>>

(***************************************************************************)
(* Constants of the program                                                *)
(***************************************************************************)
BUFFER_SIZE == 256
MARKER == <<77, 65, 82, 75, 69, 82>>          \* b"MARKER"
SAMPLE_BYTES == 6
PACKET_DATA_SIZE == BUFFER_SIZE * SAMPLE_BYTES
PACKET_SIZE == Len(MARKER) + PACKET_DATA_SIZE
RESYNC_BUDGET == 1000
SAMPLE_RATE_HZ == 360
SEGMENT_SIZE == 1024
OVERLAP_SIZE == 256
EXTENDED_SEGMENT_SIZE == SEGMENT_SIZE + (2 * OVERLAP_SIZE)
PACKETS_PER_SEGMENT == SEGMENT_SIZE \div BUFFER_SIZE
QUEUE_MAXSIZE == 100
JOIN_TIMEOUT_INTERVALS == 50

(***************************************************************************)
(* Bounds of the model                                                     *)
(***************************************************************************)
MaxFrames == 3       \* frames in a finite stream
MaxBacklog == 2      \* queued items an endless run lets pile up before the consumer runs
MaxDrops == 1        \* bytes-lost events in an endless run
MaxPackets == 3      \* packets an endless run counts before it is cut off
MaxWinPackets == 9   \* packets fed to the windower
MaxLostFrames == 1   \* frames lost ahead of the windower
MaxPresses == 3      \* presses of the record button
MaxSeconds == 1      \* seconds the wall clock advances
MaxElapsed == 3      \* intervals counted after shutdown began
MaxExtraPuts == 2    \* items a producer puts beyond the capacity of its queue
NormLen == 3         \* samples of a window given to normalize_segment
MaxNormValue == 2    \* largest of the small values of such a window
MaxFilterWindows == 4  \* calls of process_segment, and windows of a recording given to it
MaxRaceFrames == 3   \* frames the sender sends while the button is being pressed
MaxRestarts == 1     \* times the recording is stopped and started again
MaxRoundTripFrames == 3  \* frames packed and unpacked in a round trip
MaxSenderCommands == 3   \* command lines sent to the sender
MaxShortFrames == 4      \* short frames in a stream
MaxSenderSamples == 258  \* samples the sender's timer takes

Min(a, b) == IF a < b THEN a ELSE b
Max(a, b) == IF a < b THEN b ELSE a

(***************************************************************************)
(* The sender: one frame is MARKER followed by 256 samples packed '<IH'    *)
(* (u32 timestamp, u16 adc value, little-endian).                          *)
(***************************************************************************)
\* struct.pack('<IH', ts, adc)[o], o in 0..5
PackByte(ts, adc, o) ==
    IF o < 4 THEN (ts \div (256 ^ o)) % 256
             ELSE (adc \div (256 ^ (o - 4))) % 256

\* timestamp of sample n of a recording started at t0 (_sample_callback)
SampleTime(t0, n) == t0 + ((n * 1000) \div SAMPLE_RATE_HZ)

\* the adc reading of sample n: an input, a fixed pattern per recording start
SampleAdc(t0, n) == ((t0 \div 60000) + 37 * n) % 65536

\* byte o (0-based) of the k-th full frame (k from 0) of a recording started at t0
FrameByte(t0, k, o) ==
    IF o < Len(MARKER) THEN MARKER[o + 1]
    ELSE LET q == o - Len(MARKER)
             n == k * BUFFER_SIZE + (q \div SAMPLE_BYTES)
         IN  PackByte(SampleTime(t0, n), SampleAdc(t0, n), q % SAMPLE_BYTES)

\* bytes that are no frame: zeros, or a repeated marker prefix "MARKE"
GarbageByte(kind, i) ==
    IF kind = 0 THEN 0 ELSE MARKER[((i - 1) % 5) + 1]

\* g garbage bytes, then nf frames, the last one cut short by `cut` bytes
StreamOf(g, kind, t0, nf, cut) ==
    [i \in 1..(g + nf * PACKET_SIZE - cut) |->
        IF i <= g THEN GarbageByte(kind, i)
        ELSE FrameByte(t0, (i - g - 1) \div PACKET_SIZE, (i - g - 1) % PACKET_SIZE)]

\* 4 is an unread "ACK\n" ahead of the first frame
GarbageLens == {0, 1, 4, 6, 7, 12, 535, 994, 1000, 1001, 1007}
\* 1263681869 = 0x4B52414D, and its first adc value is 21061 = 0x5245: the first
\* sample of such a recording packs to b"MARKER"
StartTimes == {0, 1263681869}
Cuts == {0, SAMPLE_BYTES, PACKET_DATA_SIZE - SAMPLE_BYTES}

\* the finite input streams: <<garbage length, garbage kind, start time, frames, cut>>
InputStreams ==
    {d \in GarbageLens \X {0, 1} \X StartTimes \X (1..MaxFrames) \X Cuts :
        /\ d[2] = 1 => d[1] > 0
        /\ d[3] # 0 => d[1] \in {0, 7}
        /\ d[5] # 0 => d[1] \in {0, 7}}

(***************************************************************************)
(* pyserial: ser.read(n) returns the next n bytes, fewer when the timeout  *)
(* expires first.  `lim` is how far the stream has come in when it does;   *)
(* a device that repeats its stream never runs dry.                        *)
(***************************************************************************)
ByteAt(i) == IF cyclic THEN stream[((i - 1) % Len(stream)) + 1] ELSE stream[i]

SerRead(p, n, lim) ==
    LET k == IF cyclic THEN n ELSE Max(0, Min(n, lim - p))
    IN  [i \in 1..k |-> ByteAt(p + i)]

Only(S) == CHOOSE x \in S : TRUE

\* the least member of a non-empty set of numbers
Least(S) == CHOOSE n \in S : \A m \in S : n <= m

(***************************************************************************)
(* AcquisitionProcess._find_marker, called with the reader at offset p.    *)
(* The loop reads one byte at a time into `buffer` and stops at the first  *)
(* length n >= 6 whose last six bytes are the marker; a read that returns  *)
(* nothing ends it, and so does the byte that makes len(buffer) > 1000.    *)
(* Result: whether the marker was found and the offset after the call.     *)
(***************************************************************************)
FindMarker(p, lim) ==
    LET avail == IF cyclic THEN RESYNC_BUDGET + 1 ELSE Max(0, lim - p)
    IN  Only({ IF hits # {}
               THEN [found |-> TRUE, pos |-> p + Least(hits)]
               ELSE [found |-> FALSE,
                     pos   |-> IF avail <= RESYNC_BUDGET THEN p + avail
                               ELSE p + RESYNC_BUDGET + 1] :
               hits \in { {n \in Len(MARKER)..Min(RESYNC_BUDGET, avail) :
                              \A i \in 1..Len(MARKER) :
                                  ByteAt(p + n - Len(MARKER) + i) = MARKER[i]} } })

(***************************************************************************)
(* AcquisitionProcess._read_packet at offset p.  data = <<>> stands for    *)
(* the None it returns; `at` is the offset the payload was read at; warns  *)
(* are its status messages; depth counts the nested calls of itself.       *)
(* (x \in {e} binds x to the value of e, so that e is computed once.)      *)
(***************************************************************************)
\* faulty variant: the length check of line 107 is missing, a short read is returned
ReadPayload_NoLengthCheck(p1, lim) ==
    Only({ [data |-> data, at |-> p1, pos |-> p1 + Len(data),
            warns |-> <<>>, depth |-> 0] :
           data \in {SerRead(p1, PACKET_DATA_SIZE, lim)} })

\* faulty variant: line 105 reads PACKET_SIZE bytes, the marker's length once more
ReadPayload_WholePacket(p1, lim) ==
    Only({ IF Len(data) # PACKET_SIZE
           THEN [data |-> <<>>, at |-> 0, pos |-> p1 + Len(data),
                 warns |-> <<"WARN:incomplete_packet">>, depth |-> 0]
           ELSE [data |-> data, at |-> p1, pos |-> p1 + PACKET_SIZE,
                 warns |-> <<>>, depth |-> 0] :
           data \in {SerRead(p1, PACKET_SIZE, lim)} })

\* lines 105-111: the payload read that follows a matching marker
ReadPayload(p1, lim) ==
    Only({ IF Len(data) # PACKET_DATA_SIZE
           THEN [data |-> <<>>, at |-> 0, pos |-> p1 + Len(data),
                 warns |-> <<"WARN:incomplete_packet">>, depth |-> 0]
           ELSE [data |-> data, at |-> p1, pos |-> p1 + PACKET_DATA_SIZE,
                 warns |-> <<>>, depth |-> 0] :
           data \in {SerRead(p1, PACKET_DATA_SIZE, lim)} })

\* lines 94-98: the warning for a marker that did not match
SyncLostWarn(marker) ==
    IF Len(marker) = Len(MARKER) THEN "WARN:sync_lost" ELSE "WARN:incomplete_marker"

RECURSIVE ReadPacket(_, _)
ReadPacket(p, lim) ==
    Only({
        IF marker # MARKER
        THEN Only({
               IF f.found
               THEN Only({ [data  |-> r.data, at |-> r.at, pos |-> r.pos,
                            warns |-> <<SyncLostWarn(marker)>> \o r.warns,
                            depth |-> r.depth + 1] :
                           r \in {ReadPacket(f.pos, lim)} })
               ELSE [data |-> <<>>, at |-> 0, pos |-> f.pos,
                     warns |-> <<SyncLostWarn(marker)>>, depth |-> 0] :
               f \in {FindMarker(p + Len(marker), lim)} })
        ELSE ReadPayload(p + Len(marker), lim) :
        marker \in {SerRead(p, Len(MARKER), lim)} })

(***************************************************************************)
(* acquisition_loop, lines 326-334: what one _read_packet call at `pos`    *)
(* with outcome r does to the queues and the loop's counter.  A returned   *)
(* None is falsy and puts nothing.  The timing-dependent DEBUG messages    *)
(* of the loop are left out.                                               *)
(***************************************************************************)
PutPacket(r) ==
    LET got == r.data # <<>>
    IN  /\ packet_queue' = IF got THEN Append(packet_queue, r.data) ELSE packet_queue
        /\ packet_count' = IF got THEN packet_count + 1 ELSE packet_count
        /\ status_queue' = status_queue \o r.warns \o
               (IF got /\ packet_count = 0 THEN <<"INFO:first_packet">> ELSE <<>>)
        /\ last_ret' = IF got THEN "packet" ELSE "none"
        /\ last_depth' = r.depth

(***************************************************************************)
(* One iteration of acquisition_loop on a finite stream that finds a whole *)
(* frame's worth of bytes waiting (ser.in_waiting >= PACKET_SIZE).         *)
(***************************************************************************)
AcquisitionStep ==
    /\ ~cyclic
    /\ running /\ recording
    /\ arrived - pos >= PACKET_SIZE
    /\ \E lim \in {arrived, Len(stream)} :
       \E r \in {ReadPacket(pos, lim)} :
         /\ PutPacket(r)
         /\ pos' = r.pos
         /\ packet_at' = IF r.data # <<>> THEN Append(packet_at, r.at) ELSE packet_at
         /\ arrived' = lim
         /\ last_lim' = lim
         /\ read_calls' = read_calls + 1
    /\ UNCHANGED <<stream, cyclic, running, recording, drops, segVars, feedVars, ctlVars, moreVars>>

\* the device's bytes reach the input buffer, up to a frame at a time
SerialArrive ==
    /\ ~cyclic
    /\ arrived < Len(stream)
    /\ \E c \in {PACKET_SIZE \div 2, PACKET_SIZE} :
         arrived' = Min(arrived + c, Len(stream))
    /\ UNCHANGED <<stream, cyclic, pos, drops, acqVars, packet_queue, packet_at,
                   status_queue, segVars, feedVars, ctlVars, moreVars>>

\* the recording control with no button pressed and the main thread in its loop
ControlIdle ==
    /\ exiting = FALSE
    /\ ser_open = TRUE
    /\ ser_out = <<>>
    /\ inf_control_queue = <<>>
    /\ pc = [cb |-> "idle", main |-> "loop"]
    /\ presses = 0
    /\ starts = 0
    /\ stops = 0

\* the processes of the pipeline, in the order of self.processes
PROCESSES == <<"oled", "acquisition", "segmentation", "filtering", "inference">>

Workers == {PROCESSES[i] : i \in 1..Len(PROCESSES)}

\* start_pipeline has started every process, each is in its loop
PipelineStarted ==
    /\ orch_running = TRUE
    /\ orch_pc = "monitor"
    /\ join_idx = 1
    /\ join_waited = 0
    /\ worker_state = [w \in Workers |-> "loop"]
    /\ worker_running = [w \in Workers |-> TRUE]
    /\ interrupted = [w \in Workers |-> FALSE]
    /\ iterated = [w \in Workers |-> FALSE]
    /\ elapsed = 0

\* normalize_segment has not been called
NormalizerIdle ==
    /\ norm_in = <<>>
    /\ norm_out = <<>>

\* the sender after __init__ and "READY", with nothing on its stdin
SenderIdle ==
    /\ is_recording = FALSE
    /\ buffer_index = 0
    /\ timer_on = FALSE
    /\ snd_pc = "poll"
    /\ snd_stdin = <<>>
    /\ snd_out = <<>>
    /\ snd_rec = 0
    /\ snd_samples = 0
    /\ snd_cmds = 0

\* no frame is waiting, the sender is idle and the loop holds no packet
RaceIdle ==
    /\ in_buf = <<>>
    /\ dev_rec = 0
    /\ dev_seen = 0
    /\ dev_frames = 0
    /\ held = <<>>
    /\ put_log = <<>>

RecordingsIdle == rec_marks = <<>> /\ RaceIdle

\* the filtering process has been given no segment
FilterIdle ==
    /\ flt_in = <<>>
    /\ flt_out = <<>>
    /\ flt_count = 0
    /\ lib_calls = <<>>

RestIdle == NormalizerIdle /\ SenderIdle /\ scan = <<>> /\ RecordingsIdle /\ FilterIdle

\* the three data queues are created empty (deploy_main.py lines 36-38)
DATA_QUEUES == {"packet_queue", "segment_queue", "inference_queue"}

ChannelIdle ==
    /\ chan_name = "packet_queue"
    /\ chan = <<>>
    /\ put_pc = "loop"
    /\ put_count = 0
    /\ received = <<>>
    /\ consumer_alive = TRUE
    /\ last_get = "none"

\* the filter and inference stages as constructed, the classifier loaded
DownstreamIdle ==
    /\ inference_queue = <<>>
    /\ processed_count = 0
    /\ filter_log = <<>>
    /\ inf_pc = "control"
    /\ interpreter = "loaded"
    /\ session_active = FALSE
    /\ current_session = <<>>
    /\ signal_file = <<>>
    /\ filtered_file = <<>>
    /\ annotation_file = <<>>
    /\ files = <<>>
    /\ inference_count = 0
    /\ samples_written = 0
    /\ now = 0
    /\ taken = <<>>

\* the windower at start, with no recording feeding it
WindowerIdle ==
    /\ segment_buffer = <<>>
    /\ overlap_buffer = <<>>
    /\ segment_count = 0
    /\ segment_queue = <<>>
    /\ emitted = <<>>
    /\ packets_consumed = 0
    /\ sent = <<>>
    /\ rec_start = 0
    /\ next_frame = 0
    /\ frames_lost = 0
    /\ packets_put = 0

ReaderInit ==
    /\ \E d \in InputStreams : stream = StreamOf(d[1], d[2], d[3], d[4], d[5])
    /\ cyclic = FALSE
    /\ pos = 0
    /\ arrived = 0
    /\ running = TRUE
    /\ recording = TRUE
    /\ packet_count = 0
    /\ packet_queue = <<>>
    /\ packet_at = <<>>
    /\ status_queue = <<>>
    /\ read_calls = 0
    /\ last_ret = "none"
    /\ last_depth = 0
    /\ last_lim = 0
    /\ drops = 0
    /\ WindowerIdle
    /\ ControlIdle
    /\ DownstreamIdle
    /\ PipelineStarted
    /\ RestIdle
    /\ ChannelIdle

ReaderNext == AcquisitionStep \/ SerialArrive

SpecReader == ReaderInit /\ [][ReaderNext]_vars

(***************************************************************************)
(* Streams of short frames: g zero bytes, then k frames of the marker and  *)
(* ns samples each (a frame as stop_recording flushes it, or what is left  *)
(* of frames after bytes were lost), so that markers follow each other     *)
(* within the resynchronization budget.                                    *)
(***************************************************************************)
ShortFrameStream(g, k, ns) ==
    LET flen == Len(MARKER) + ns * SAMPLE_BYTES
    IN  [i \in 1..(g + k * flen) |->
            IF i <= g THEN 0
            ELSE FrameByte(0, (i - g - 1) \div flen, (i - g - 1) % flen)]

ShortFrameStreams ==
    {ShortFrameStream(d[1], d[2], d[3]) : d \in {1, 2, 3} \X (2..MaxShortFrames) \X {100, 165}}

ResyncInit ==
    /\ stream \in ShortFrameStreams
    /\ cyclic = FALSE
    /\ pos = 0
    /\ arrived = 0
    /\ running = TRUE
    /\ recording = TRUE
    /\ packet_count = 0
    /\ packet_queue = <<>>
    /\ packet_at = <<>>
    /\ status_queue = <<>>
    /\ read_calls = 0
    /\ last_ret = "none"
    /\ last_depth = 0
    /\ last_lim = 0
    /\ drops = 0
    /\ WindowerIdle
    /\ ControlIdle
    /\ DownstreamIdle
    /\ PipelineStarted
    /\ RestIdle
    /\ ChannelIdle

SpecResync == ResyncInit /\ [][ReaderNext]_vars

(***************************************************************************)
(* _find_marker on its own: called at the reader's offset, again and       *)
(* again, on the finite streams of one frame and the streams of short      *)
(* frames.                                                                 *)
(***************************************************************************)
\* faulty variant: the scan has no budget and goes on to the end of the data
FindMarker_NoBudget(p, lim) ==
    IF FindMarker(p, lim).found THEN FindMarker(p, lim)
    ELSE [found |-> FALSE, pos |-> p + Max(0, lim - p)]

\* _find_marker's result at offset p
ScanResult(p, lim) == FindMarker(p, lim)

FindMarkerCall ==
    /\ ~cyclic
    /\ pos < Len(stream) \/ scan = <<>>
    /\ \E lim \in {arrived, Len(stream)} :
       \E r \in {ScanResult(pos, lim)} :
         /\ scan' = <<[from |-> pos, lim |-> lim, found |-> r.found, pos |-> r.pos]>>
         /\ pos' = r.pos
         /\ arrived' = lim
    /\ UNCHANGED <<stream, cyclic, drops, acqVars, packet_queue, packet_at, status_queue,
                   segVars, feedVars, ctlVars, filtVars, infVars, lifeVars, chanVars,
                   normVars, sndVars, recVars, libVars>>

ScanInit ==
    /\ \/ \E d \in InputStreams : d[4] = 1 /\ stream = StreamOf(d[1], d[2], d[3], d[4], d[5])
       \/ stream \in ShortFrameStreams
    /\ cyclic = FALSE
    /\ pos \in {0, 1}
    /\ arrived = pos
    /\ running = TRUE
    /\ recording = TRUE
    /\ packet_count = 0
    /\ packet_queue = <<>>
    /\ packet_at = <<>>
    /\ status_queue = <<>>
    /\ read_calls = 0
    /\ last_ret = "none"
    /\ last_depth = 0
    /\ last_lim = 0
    /\ drops = 0
    /\ WindowerIdle
    /\ ControlIdle
    /\ DownstreamIdle
    /\ PipelineStarted
    /\ RestIdle
    /\ ChannelIdle

ScanNext == FindMarkerCall \/ SerialArrive

SpecScan == ScanInit /\ [][ScanNext]_vars

(***************************************************************************)
(* An endless recording: the device sends valid frames back to back for    *)
(* ever (the stream is one period of it, offsets are kept modulo the       *)
(* period).  The transport may lose bytes, which shifts the reader against *)
(* the frames; the segmentation process and the status monitor take items  *)
(* off the queues.                                                         *)
(***************************************************************************)
EndlessStep ==
    /\ cyclic
    /\ running /\ recording
    /\ packet_count < MaxPackets
    /\ Len(packet_queue) < MaxBacklog /\ Len(status_queue) < MaxBacklog
    /\ \E r \in {ReadPacket(pos, 0)} :
         /\ PutPacket(r)
         /\ pos' = r.pos % Len(stream)
         /\ packet_at' = IF r.data # <<>> THEN Append(packet_at, r.at % Len(stream))
                         ELSE packet_at
    /\ UNCHANGED <<stream, cyclic, arrived, running, recording, read_calls,
                   last_lim, drops, segVars, feedVars, ctlVars, moreVars>>

\* how many bytes a loss takes out of the stream
LostLens == {1, 4, 6, 529, 535, 542, 1013, 1536, 1541}

\* k bytes of the stream never reach the reader
BytesLost ==
    /\ cyclic
    /\ drops < MaxDrops
    /\ \E k \in LostLens : pos' = (pos + k) % Len(stream)
    /\ drops' = drops + 1
    /\ UNCHANGED <<stream, cyclic, arrived, acqVars, packet_queue, packet_at,
                   status_queue, segVars, feedVars, ctlVars, moreVars>>

\* segmentation_loop's packet_queue.get, seen from the reader
PacketTaken ==
    /\ cyclic
    /\ packet_queue # <<>>
    /\ packet_queue' = Tail(packet_queue)
    /\ packet_at' = Tail(packet_at)
    /\ UNCHANGED <<serVars, acqVars, status_queue, segVars, feedVars, ctlVars, moreVars>>

\* status_monitor_loop's status_queue.get
StatusTaken ==
    /\ cyclic
    /\ status_queue # <<>>
    /\ status_queue' = Tail(status_queue)
    /\ UNCHANGED <<serVars, acqVars, packet_queue, packet_at, segVars, feedVars, ctlVars, moreVars>>

EndlessInit ==
    /\ stream = StreamOf(0, 0, 0, 1, 0)
    /\ cyclic = TRUE
    /\ pos = 0
    /\ arrived = 0
    /\ running = TRUE
    /\ recording = TRUE
    /\ packet_count = 0
    /\ packet_queue = <<>>
    /\ packet_at = <<>>
    /\ status_queue = <<>>
    /\ read_calls = 0
    /\ last_ret = "none"
    /\ last_depth = 0
    /\ last_lim = 0
    /\ drops = 0
    /\ WindowerIdle
    /\ ControlIdle
    /\ DownstreamIdle
    /\ PipelineStarted
    /\ RestIdle
    /\ ChannelIdle

EndlessNext == EndlessStep \/ BytesLost \/ PacketTaken \/ StatusTaken

\* the loop and the two consumers each run for as long as the process lives
SpecEndless ==
    /\ EndlessInit /\ [][EndlessNext]_vars
    /\ WF_vars(EndlessStep)
    /\ WF_vars(PacketTaken)
    /\ WF_vars(StatusTaken)

(***************************************************************************)
(* The windower (deploy_segmentation.py).  A sample is the pair            *)
(* <<timestamp_ms, adc_value>>.                                            *)
(***************************************************************************)
\* what the sender sampled for frame k of the recording started at t0
FrameSamples(t0, k) ==
    [j \in 1..BUFFER_SIZE |->
        <<SampleTime(t0, k * BUFFER_SIZE + j - 1), SampleAdc(t0, k * BUFFER_SIZE + j - 1)>>]

\* the payload of that frame as the reader queues it
FramePayload(t0, k) ==
    [o \in 1..PACKET_DATA_SIZE |-> FrameByte(t0, k, Len(MARKER) + o - 1)]

\* faulty variant: the timestamp is read as two bytes
U32_TwoBytes(d, i) == d[i + 1] + 256 * d[i + 2]

\* struct.unpack('<I', b) and struct.unpack('<H', b) of bytes d[i+1..]
U32(d, i) == d[i + 1] + 256 * d[i + 2] + 65536 * d[i + 3] + 16777216 * d[i + 4]
U16(d, i) == d[i + 1] + 256 * d[i + 2]

\* _unpack_packet: one pair per 6 bytes (it raises on a last chunk of fewer)
UnpackPacket(packet_data) ==
    [k \in 1..(Len(packet_data) \div SAMPLE_BYTES) |->
        <<U32(packet_data, (k - 1) * SAMPLE_BYTES),
          U16(packet_data, (k - 1) * SAMPLE_BYTES + 4)>>]

\* Python's seq[lo:hi] for 0 <= lo <= hi
Slice(seq, lo, hi) == SubSeq(seq, lo + 1, Min(hi, Len(seq)))

\* faulty variant: a window is cut as soon as a core's worth of samples is buffered
WindowReady_CoreOnly(buf) == Len(buf) >= SEGMENT_SIZE

\* segmentation_loop line 87: enough samples for a core and its trailing overlap
WindowReady(buf) == Len(buf) >= SEGMENT_SIZE + OVERLAP_SIZE

\* faulty variant: the extended window stops at the end of the core
ExtendedSamples_NoTrailing(overlap, buf) == overlap \o Slice(buf, 0, SEGMENT_SIZE)

\* _create_segment line 48
ExtendedSamples(overlap, buf) == overlap \o Slice(buf, 0, SEGMENT_SIZE + OVERLAP_SIZE)

\* _create_segment lines 50-67: the segment dictionary
SegmentOf(extended_samples, core_start, count) ==
    LET extended_timestamps == [i \in 1..Len(extended_samples) |-> extended_samples[i][1]]
        extended_adc == [i \in 1..Len(extended_samples) |-> extended_samples[i][2]]
        core_end == core_start + SEGMENT_SIZE
        core_timestamps == Slice(extended_timestamps, core_start, core_end)
    IN  [segment_id            |-> count,
         extended_timestamp_ms |-> extended_timestamps,
         extended_adc_value    |-> extended_adc,
         timestamp_ms          |-> core_timestamps,
         core_start_idx        |-> core_start,
         core_end_idx          |-> core_end,
         start_time            |-> core_timestamps[1],
         end_time              |-> core_timestamps[Len(core_timestamps)],
         sample_count          |-> SEGMENT_SIZE]

\* faulty variant: the carried overlap is the end of the core, not what follows it
NextOverlap_CoreTail(buf) == Slice(buf, SEGMENT_SIZE - OVERLAP_SIZE, SEGMENT_SIZE)

\* _create_segment line 71: the overlap carried to the next window
NextOverlap(buf) == Slice(buf, SEGMENT_SIZE, SEGMENT_SIZE + OVERLAP_SIZE)

\* faulty variant: the cut leaves the buffer as it was
NextBuffer_Uncut(buf) == buf

\* faulty variant: the cut leaves the last sample of the core in the buffer
NextBuffer_KeepLastCore(buf) == Slice(buf, SEGMENT_SIZE - 1, Len(buf))

\* _create_segment line 72: the buffer after the cut
NextBuffer(buf) == Slice(buf, SEGMENT_SIZE, Len(buf))

\* faulty variant: the segment counter is not advanced
SegmentCountAfter_Stuck(count) == count

\* _create_segment line 69
SegmentCountAfter(count) == count + 1

(***************************************************************************)
(* One iteration of segmentation_loop that gets a packet: unpack, extend   *)
(* the buffer, and cut and put one segment when enough samples are there.  *)
(* A packet that does not unpack raises; the loop reports it and goes on.  *)
(***************************************************************************)
SegmentationStep ==
    /\ ~cyclic
    /\ worker_state["segmentation"] = "loop"
    /\ packet_queue # <<>>
    /\ packet_queue' = Tail(packet_queue)
    /\ packets_consumed' = packets_consumed + 1
    /\ IF Len(Head(packet_queue)) % SAMPLE_BYTES # 0
       THEN /\ status_queue' = Append(status_queue, "ERROR:segmentation")
            /\ UNCHANGED <<segment_buffer, overlap_buffer, segment_count,
                           segment_queue, emitted>>
       ELSE \E buf \in {segment_buffer \o UnpackPacket(Head(packet_queue))} :
              IF WindowReady(buf)
              THEN \E segment \in {SegmentOf(ExtendedSamples(overlap_buffer, buf),
                                             Len(overlap_buffer), segment_count)} :
                     /\ segment_count' = SegmentCountAfter(segment_count)
                     /\ overlap_buffer' = NextOverlap(buf)
                     /\ segment_buffer' = NextBuffer(buf)
                     /\ segment_queue' = Append(segment_queue, segment)
                     /\ emitted' = Append(emitted, segment)
                     /\ status_queue' =
                            IF (segment_count + 1) % 10 = 0
                            THEN Append(status_queue, "DEBUG:segments_created")
                            ELSE status_queue
              ELSE /\ segment_buffer' = buf
                   /\ UNCHANGED <<overlap_buffer, segment_count, segment_queue,
                                  emitted, status_queue>>
    /\ UNCHANGED <<serVars, acqVars, packet_at, feedVars, ctlVars, moreVars>>

\* the acquisition process puts the payload of the next frame that got through
PacketPut ==
    /\ ~cyclic
    /\ packets_put < MaxWinPackets
    /\ Len(packet_queue) < MaxBacklog
    /\ \E lost \in {0, 1} :
         /\ lost = 1 => frames_lost < MaxLostFrames
         /\ packet_queue' = Append(packet_queue, FramePayload(rec_start, next_frame + lost))
         /\ sent' = sent \o FrameSamples(rec_start, next_frame + lost)
         /\ next_frame' = next_frame + lost + 1
         /\ frames_lost' = frames_lost + lost
    /\ packets_put' = packets_put + 1
    /\ UNCHANGED <<serVars, acqVars, packet_at, status_queue, segVars, rec_start, ctlVars, moreVars>>

\* filtering_loop's segment_queue.get
SegmentTaken ==
    /\ ~cyclic
    /\ segment_queue # <<>>
    /\ segment_queue' = Tail(segment_queue)
    /\ UNCHANGED <<serVars, acqVars, packet_queue, packet_at, status_queue,
                   segment_buffer, overlap_buffer, segment_count, emitted,
                   packets_consumed, feedVars, ctlVars, moreVars>>

WindowerInit ==
    /\ stream = <<>>
    /\ cyclic = FALSE
    /\ pos = 0
    /\ arrived = 0
    /\ drops = 0
    /\ running = TRUE
    /\ recording = TRUE
    /\ packet_count = 0
    /\ read_calls = 0
    /\ last_ret = "none"
    /\ last_depth = 0
    /\ last_lim = 0
    /\ packet_queue = <<>>
    /\ packet_at = <<>>
    /\ status_queue = <<>>
    /\ segment_buffer = <<>>
    /\ overlap_buffer = <<>>
    /\ segment_count = 0
    /\ segment_queue = <<>>
    /\ emitted = <<>>
    /\ packets_consumed = 0
    /\ sent = <<>>
    /\ rec_start \in StartTimes
    /\ next_frame = 0
    /\ frames_lost = 0
    /\ packets_put = 0
    /\ ControlIdle
    /\ DownstreamIdle
    /\ PipelineStarted
    /\ RestIdle
    /\ ChannelIdle

WindowerNext == PacketPut \/ SegmentationStep \/ SegmentTaken

SpecWindower == WindowerInit /\ [][WindowerNext]_vars

\* start_recording line 43 of the sender: the clock has moved on since the last start
RestartTimes(t0) == {t \in StartTimes : t > t0}

\* the record button stops the recording and starts the next one (toggle_recording
\* twice; the sender's start_recording resets its sample count and reads a new start
\* time): the frames that reach the packet queue from here on are those of a new
\* recording.  Nothing is sent to the segmentation process.
RecordingRestarts ==
    /\ ~cyclic
    /\ packets_put > 0
    /\ Len(rec_marks) < MaxRestarts
    /\ \E t \in RestartTimes(rec_start) : rec_start' = t
    /\ next_frame' = 0
    /\ rec_marks' = Append(rec_marks, Len(sent))
    /\ UNCHANGED <<serVars, acqVars, packet_queue, packet_at, status_queue, segVars,
                   sent, frames_lost, packets_put, ctlVars, filtVars, infVars, lifeVars,
                   chanVars, normVars, sndVars, scan, raceVars, libVars>>

RestartNext == PacketPut \/ SegmentationStep \/ RecordingRestarts

SpecRestart == WindowerInit /\ [][RestartNext]_vars

\* faulty variant: cleanup sends what is left in the buffer as a last, short segment
CleanupSegments_Flush(buf, count) ==
    IF buf = <<>> THEN <<>>
    ELSE <<[SegmentOf(buf \o [i \in 1..SEGMENT_SIZE |-> buf[1]], 0, count)
               EXCEPT !.timestamp_ms = [i \in 1..Len(buf) |-> buf[i][1]],
                      !.core_end_idx = Len(buf),
                      !.sample_count = Len(buf)]>>

\* cleanup lines 110-115: the segments it puts on the segment queue
CleanupSegments(buf, count) == <<>>

\* run lines 104-108 and cleanup: the process is interrupted in its loop, reports
\* what is left in its buffer and ends
SegmentationCleanup ==
    /\ ~cyclic
    /\ worker_state["segmentation"] = "loop"
    /\ worker_state' = [worker_state EXCEPT !["segmentation"] = "exited"]
    /\ status_queue' = status_queue
                        \o (IF Len(segment_buffer) > 0
                            THEN <<"INFO:flushing_remaining_samples">> ELSE <<>>)
                        \o <<"INFO:segmentation_terminated">>
    /\ segment_queue' = segment_queue \o CleanupSegments(segment_buffer, segment_count)
    /\ emitted' = emitted \o CleanupSegments(segment_buffer, segment_count)
    /\ UNCHANGED <<serVars, acqVars, packet_queue, packet_at, segment_buffer,
                   overlap_buffer, segment_count, packets_consumed, feedVars, ctlVars,
                   filtVars, infVars, chanVars, restVars, orch_running, orch_pc, join_idx,
                   join_waited, worker_running, interrupted, iterated, elapsed>>

WindowerEndNext == WindowerNext \/ SegmentationCleanup

SpecWindowerEnd == WindowerInit /\ [][WindowerEndNext]_vars

(***************************************************************************)
(* Framing round trip: the sender packs 256 samples into a payload         *)
(* (deploy_pico.py, _sample_callback), the windower unpacks it             *)
(* (_unpack_packet).  The samples of a frame are an input: timestamps      *)
(* counting up from a base, adc values stepping through both bytes.  The   *)
(* bases put the values at the ends of the two fields' ranges as far as    *)
(* the model's integers reach (2^31 - 1).                                  *)
(***************************************************************************)
RoundTripTimes == {0, 65280, 2147483392}
RoundTripAdcs == {0, 65535}

RoundTripSamples(tb, ab) ==
    [j \in 1..BUFFER_SIZE |-> <<tb + j - 1, (ab + 257 * (j - 1)) % 65536>>]

\* _sample_callback lines 67-68: sample i of the buffer is packed at offset 6 * i
PackSamples(samples) ==
    [o \in 1..(Len(samples) * SAMPLE_BYTES) |->
        PackByte(samples[((o - 1) \div SAMPLE_BYTES) + 1][1],
                 samples[((o - 1) \div SAMPLE_BYTES) + 1][2],
                 (o - 1) % SAMPLE_BYTES)]

\* the sender fills its buffer with 256 samples and the payload reaches the packet queue
SenderPacks ==
    /\ packets_put < MaxRoundTripFrames
    /\ Len(packet_queue) < MaxBacklog
    /\ \E tb \in RoundTripTimes, ab \in RoundTripAdcs :
         /\ packet_queue' = Append(packet_queue, PackSamples(RoundTripSamples(tb, ab)))
         /\ sent' = sent \o RoundTripSamples(tb, ab)
    /\ packets_put' = packets_put + 1
    /\ UNCHANGED <<serVars, acqVars, packet_at, status_queue, segVars, rec_start,
                   next_frame, frames_lost, ctlVars, moreVars>>

FramingInit ==
    /\ WindowerInit
    /\ rec_start = 0

FramingNext == SenderPacks \/ SegmentationStep

SpecFraming == FramingInit /\ [][FramingNext]_vars

(***************************************************************************)
(* The filter stage (deploy_filtering.py).  The three filters and the      *)
(* normalization are numerical library code: what they make of a window is *)
(* not determined by the source, so an outcome says only whether the       *)
(* call raised and whether its values are all finite.  Value i of a        *)
(* filtered array is the symbol <<outcome, i>>, i the index it was         *)
(* computed at.                                                            *)
(***************************************************************************)
FilterOutcomes == {"finite", "nonfinite", "raises"}

\* apply_filtering_pipeline: notch, FIR low-pass, IIR high-pass, each over the whole array
ApplyFilteringPipeline(signal, outcome) == [i \in 1..Len(signal) |-> <<outcome, i - 1>>]

\* normalize_segment of a filtered core, by what is known of its values
NormalizedSymbol(filtered_core, outcome) == <<"normalized", outcome, Len(filtered_core)>>

\* FilteringProcess.process_segment
ProcessSegment(segment, outcome) ==
    LET filtered_extended == ApplyFilteringPipeline(segment.extended_adc_value, outcome)
        filtered_core == Slice(filtered_extended, segment.core_start_idx, segment.core_end_idx)
        raw_core == Slice(segment.extended_adc_value, segment.core_start_idx,
                          segment.core_end_idx)
    IN  [segment_id       |-> segment.segment_id,
         timestamp_ms     |-> segment.timestamp_ms,
         start_time       |-> segment.start_time,
         end_time         |-> segment.end_time,
         raw_signal       |-> raw_core,
         filtered_signal  |-> filtered_core,
         processed_signal |-> NormalizedSymbol(filtered_core, outcome),
         sample_count     |-> segment.sample_count]

\* faulty variant: a failure of process_segment goes unnoticed
Raises_Never(outcome) == FALSE

\* filtering_loop lines 145-161: process_segment raised, control is in `except Exception`
Raises(outcome) == outcome = "raises"

\* one iteration of filtering_loop that gets a segment
FilteringStep ==
    /\ ~cyclic
    /\ segment_queue # <<>>
    /\ segment_queue' = Tail(segment_queue)
    /\ \E outcome \in FilterOutcomes :
         /\ filter_log' = Append(filter_log, <<Head(segment_queue).segment_id, outcome>>)
         /\ IF Raises(outcome)
            THEN /\ status_queue' = Append(status_queue, "ERROR:filtering")
                 /\ UNCHANGED <<inference_queue, processed_count>>
            ELSE /\ Len(inference_queue) < QUEUE_MAXSIZE
                 /\ inference_queue' =
                        Append(inference_queue, ProcessSegment(Head(segment_queue), outcome))
                 /\ processed_count' = processed_count + 1
                 /\ status_queue' =
                        IF (processed_count + 1) % 10 = 0
                        THEN Append(status_queue, "DEBUG:filtering_processed")
                        ELSE status_queue
    /\ UNCHANGED <<serVars, acqVars, packet_queue, packet_at, segment_buffer,
                   overlap_buffer, segment_count, emitted, packets_consumed, feedVars,
                   ctlVars, infVars, laterVars>>

(***************************************************************************)
(* The inference stage (deploy_inference.py).  A session's name is the     *)
(* second it was started in ("ecg_%d%m%y_%H%M%S"); `files` maps a name to  *)
(* the data rows of its three csv files (the header rows are left out).    *)
(* The duration the status messages carry is not modelled.                 *)
(***************************************************************************)
RHYTHM_CLASSES == [c \in 0..3 |-> <<"NSR", "AFIB", "PVC", "LBBB">>[c + 1]]

\* what run_inference returns without a working classifier
DefaultPrediction == [class |-> 0, label |-> "NSR", confidence |-> "0.0000"]

\* faulty variant: an invocation that raised leaves a prediction that is not the default
Predictions_StaleGuess ==
    {[prediction |-> [class |-> 2, label |-> RHYTHM_CLASSES[2], confidence |-> "p"],
      raised |-> r] : r \in BOOLEAN}

\* what one run_inference call can come to: the prediction and whether invoke raised
Predictions ==
    IF interpreter = "None"
    THEN {[prediction |-> DefaultPrediction, raised |-> FALSE]}
    ELSE {[prediction |-> DefaultPrediction, raised |-> TRUE]}
         \cup {[prediction |-> [class |-> c, label |-> RHYTHM_CLASSES[c],
                                confidence |-> "p"], raised |-> FALSE] : c \in {2}}

EmptyFiles == [signal |-> <<>>, filtered |-> <<>>, rhythm |-> <<>>]

\* open(path, 'w') of the three files of session `name`: created, or truncated
OpenSession(fs, name) ==
    [n \in (DOMAIN fs) \cup {name} |-> IF n = name THEN EmptyFiles ELSE fs[n]]

\* write_signal_samples lines 195-200: the rows it writes to the two signal files
SignalRows(segment) ==
    [j \in 1..Min(Len(segment.timestamp_ms), Len(segment.raw_signal)) |->
        <<segment.timestamp_ms[j], segment.raw_signal[j]>>]

FilteredRows(segment) ==
    [j \in 1..Min(Len(segment.timestamp_ms), Len(segment.filtered_signal)) |->
        <<segment.timestamp_ms[j], segment.filtered_signal[j]>>]

\* write_rhythm_annotation lines 233-240
AnnotationRow(segment, prediction) ==
    <<segment.segment_id, segment.start_time, segment.end_time,
      prediction.class, prediction.label, prediction.confidence>>

\* stop_session: the status messages it puts
StopSessionStatus ==
    <<"STATUS:SAVED", "STATUS:SESSION_STOP", "INFO:samples_written",
      "INFO:inferences_performed">>

\* line 286, datetime.now(): the second read when a session is started is the one
\* read last or a later one (`now` is the last second read)
ClockReads(starting) == IF starting THEN now..MaxSeconds ELSE {now}

\* faulty variant: the rows of the filtered file are counted as well
WrittenBy_BothFiles(signal_writer, segment) ==
    IF signal_writer = <<>> THEN 0 ELSE 2 * Len(segment.timestamp_ms)

\* write_signal_samples lines 188-189 and 202: what is added to samples_written
WrittenBy(signal_writer, segment) ==
    IF signal_writer = <<>> THEN 0 ELSE Len(segment.timestamp_ms)

\* faulty variant: a segment never starts a session
StartsSession_Never(active) == FALSE

\* inference_loop line 285: a segment got with no session active starts one
StartsSession(active) == ~active

\* faulty variant: the token stops a session whether or not one is active
StopsSession_AnyState(msg, active) == msg = "STOP_SESSION"

\* inference_loop line 276: the message that ends the session
StopsSession(msg, active) == msg = "STOP_SESSION" /\ active

\* inference_loop lines 274-280: the control channel is polled once
InferenceControl ==
    /\ ~cyclic
    /\ worker_state["inference"] = "loop"
    /\ inf_pc = "control"
    /\ inf_pc' = "segment"
    /\ IF inf_control_queue = <<>>
       THEN UNCHANGED <<inf_control_queue, session_active, current_session, signal_file,
                        filtered_file, annotation_file, inference_count,
                        samples_written, status_queue>>
       ELSE /\ inf_control_queue' = Tail(inf_control_queue)
            /\ IF StopsSession(Head(inf_control_queue), session_active)
               THEN /\ signal_file' = <<>>
                    /\ filtered_file' = <<>>
                    /\ annotation_file' = <<>>
                    /\ status_queue' = status_queue \o StopSessionStatus
                    /\ current_session' = <<>>
                    /\ samples_written' = 0
                    /\ inference_count' = 0
                    /\ session_active' = FALSE
               ELSE UNCHANGED <<session_active, current_session, signal_file,
                                filtered_file, annotation_file, inference_count,
                                samples_written, status_queue>>
    /\ UNCHANGED <<serVars, acqVars, packet_queue, packet_at, segVars, feedVars,
                   exiting, ser_open, ser_out, pc, presses, starts, stops,
                   filtVars, interpreter, files, now, taken, laterVars>>

\* inference_loop lines 282-298: the inference queue is waited on once; a segment
\* got starts a session when none is active and is processed
InferenceSegment ==
    /\ ~cyclic
    /\ worker_state["inference"] = "loop"
    /\ inf_pc = "segment"
    /\ inf_pc' = "control"
    /\ IF inference_queue = <<>>
       THEN UNCHANGED <<inference_queue, session_active, current_session, signal_file,
                        filtered_file, annotation_file, files, inference_count,
                        samples_written, status_queue, taken, now>>
       ELSE \E segment \in {Head(inference_queue)}, run \in Predictions,
               t \in ClockReads(StartsSession(session_active)) :
            LET opened == StartsSession(session_active)
                \* start_session
                name == IF opened THEN <<t>> ELSE current_session
                sig == IF opened THEN <<t>> ELSE signal_file
                fil == IF opened THEN <<t>> ELSE filtered_file
                ann == IF opened THEN <<t>> ELSE annotation_file
                fs0 == IF opened THEN OpenSession(files, t) ELSE files
                st0 == IF opened
                       THEN <<"STATUS:SESSION_START", "INFO:signal_file", "INFO:rhythm_file">>
                       ELSE <<>>
                \* run_inference
                st1 == IF run.raised THEN <<"ERROR:inference_failed">> ELSE <<>>
                \* write_signal_samples
                fs1 == IF sig = <<>> THEN fs0
                       ELSE [fs0 EXCEPT ![sig[1]].signal = @ \o SignalRows(segment)]
                fs2 == IF sig = <<>> \/ fil = <<>> THEN fs1
                       ELSE [fs1 EXCEPT ![fil[1]].filtered = @ \o FilteredRows(segment)]
                written == WrittenBy(sig, segment)
                \* write_rhythm_annotation
                fs3 == IF ann = <<>> THEN fs2
                       ELSE [fs2 EXCEPT ![ann[1]].rhythm =
                                 Append(@, AnnotationRow(segment, run.prediction))]
                st2 == IF ann = <<>> THEN <<>> ELSE <<"STATUS:RHYTHM">>
                st3 == IF (inference_count + 1) % 10 = 0 THEN <<"DEBUG:inferences">>
                       ELSE <<>>
            IN  /\ inference_queue' = Tail(inference_queue)
                /\ session_active' = TRUE
                /\ current_session' = name
                /\ signal_file' = sig
                /\ filtered_file' = fil
                /\ annotation_file' = ann
                /\ files' = fs3
                /\ now' = t
                /\ samples_written' = samples_written + written
                /\ inference_count' = inference_count + 1
                /\ status_queue' = status_queue \o st0 \o st1 \o st2 \o st3
                /\ taken' = Append(taken,
                       [segment_id      |-> segment.segment_id,
                        opened          |-> opened,
                        session         |-> sig,
                        signal_rows     |-> written,
                        annotation_rows |-> IF ann = <<>> THEN 0 ELSE 1,
                        prediction      |-> run.prediction,
                        raised          |-> run.raised,
                        count_before    |-> inference_count,
                        inference_count |-> inference_count + 1,
                        after_stops     |-> stops])
    /\ UNCHANGED <<serVars, acqVars, packet_queue, packet_at, segVars, feedVars,
                   ctlVars, processed_count, filter_log, interpreter, laterVars>>

\* the record button stops the recording: toggle_recording runs stop_acquisition
\* to its end on the callback thread
StopAcquisition ==
    /\ ~cyclic
    /\ ~exiting
    /\ recording
    /\ pc["cb"] = "idle"
    /\ recording' = FALSE
    /\ stops' = stops + 1
    /\ ser_out' = IF ser_open THEN Append(ser_out, "STOP") ELSE ser_out
    /\ status_queue' = Append(status_queue, "STATUS:RECORDING_STOP")
    /\ inf_control_queue' = Append(inf_control_queue, "STOP_SESSION")
    /\ UNCHANGED <<serVars, running, packet_count, read_calls, last_ret, last_depth,
                   last_lim, packet_queue, packet_at, segVars, feedVars, exiting,
                   ser_open, pc, presses, starts, moreVars>>

\* a packet of the recording in progress reaches the packet queue; a frame is lost
\* ahead of the first packet or not at all
RecordingPacketPut ==
    /\ recording
    /\ PacketPut
    /\ (frames_lost' # frames_lost) => (packets_put = 0)

PipelineInit ==
    /\ stream = <<>>
    /\ cyclic = FALSE
    /\ pos = 0
    /\ arrived = 0
    /\ drops = 0
    /\ running = TRUE
    /\ recording = TRUE
    /\ packet_count = 0
    /\ read_calls = 0
    /\ last_ret = "none"
    /\ last_depth = 0
    /\ last_lim = 0
    /\ packet_queue = <<>>
    /\ packet_at = <<>>
    /\ status_queue = <<>>
    /\ WindowerIdle
    /\ ControlIdle
    /\ inference_queue = <<>>
    /\ processed_count = 0
    /\ filter_log = <<>>
    /\ inf_pc = "control"
    /\ interpreter \in {"None", "loaded"}
    /\ session_active = FALSE
    /\ current_session = <<>>
    /\ signal_file = <<>>
    /\ filtered_file = <<>>
    /\ annotation_file = <<>>
    /\ files = <<>>
    /\ inference_count = 0
    /\ samples_written = 0
    /\ now = 0
    /\ taken = <<>>
    /\ PipelineStarted
    /\ RestIdle
    /\ ChannelIdle

PipelineNext ==
    \/ RecordingPacketPut \/ SegmentationStep \/ FilteringStep
    \/ InferenceControl \/ InferenceSegment
    \/ StopAcquisition

SpecPipeline == PipelineInit /\ [][PipelineNext]_vars

(***************************************************************************)
(* Recording control of the acquisition process.  The record button's      *)
(* callback toggle_recording runs on gpiozero's callback thread ("cb"),    *)
(* one press at a time; acquisition_loop and, once the loop is left,       *)
(* cleanup run on the main thread ("main").  Each action is one statement  *)
(* (or one run of statements that touch no shared state) of one thread.    *)
(***************************************************************************)
Threads == {"cb", "main"}

\* where stop_acquisition returns to: the callback ends, cleanup goes on at line 363
StopReturn(th) == IF th = "cb" THEN "idle" ELSE "cl_close"

Goto(th, label) == pc' = [pc EXCEPT ![th] = label]

ctlFrame == <<serVars, packet_count, read_calls, last_ret, last_depth, last_lim,
              packet_queue, packet_at, segVars, feedVars, running, moreVars>>

\* the record button is pressed: gpiozero calls toggle_recording
ButtonPress ==
    /\ pc["cb"] = "idle"
    /\ presses < MaxPresses
    /\ presses' = presses + 1
    /\ Goto("cb", "toggle_exiting")
    /\ UNCHANGED <<ctlFrame, recording, status_queue, exiting, ser_open, ser_out,
                   inf_control_queue, starts, stops>>

\* toggle_recording lines 161-162
ToggleCheckExiting ==
    /\ pc["cb"] = "toggle_exiting"
    /\ Goto("cb", IF exiting THEN "idle" ELSE "toggle_recording")
    /\ UNCHANGED <<ctlFrame, recording, status_queue, exiting, ser_open, ser_out,
                   inf_control_queue, presses, starts, stops>>

\* toggle_recording lines 164-167
ToggleCheckRecording ==
    /\ pc["cb"] = "toggle_recording"
    /\ Goto("cb", IF ~recording THEN "start_check" ELSE "stop_check")
    /\ UNCHANGED <<ctlFrame, recording, status_queue, exiting, ser_open, ser_out,
                   inf_control_queue, presses, starts, stops>>

\* start_acquisition lines 115-116
StartCheck ==
    /\ pc["cb"] = "start_check"
    /\ Goto("cb", IF recording THEN "idle" ELSE "start_set")
    /\ UNCHANGED <<ctlFrame, recording, status_queue, exiting, ser_open, ser_out,
                   inf_control_queue, presses, starts, stops>>

\* start_acquisition line 118
StartSet ==
    /\ pc["cb"] = "start_set"
    /\ recording' = TRUE
    /\ starts' = starts + 1
    /\ Goto("cb", "start_reset")
    /\ UNCHANGED <<ctlFrame, status_queue, exiting, ser_open, ser_out,
                   inf_control_queue, presses, stops>>

\* start_acquisition lines 120-123: on a closed port in_waiting raises and the
\* callback ends; else the input buffer is cleared, and reported when it held bytes
StartReset ==
    /\ pc["cb"] = "start_reset"
    /\ IF ~ser_open
       THEN Goto("cb", "idle") /\ UNCHANGED status_queue
       ELSE /\ Goto("cb", "start_write")
            /\ \E cleared \in BOOLEAN :
                 status_queue' = IF cleared THEN Append(status_queue, "DEBUG:cleared")
                                 ELSE status_queue
    /\ UNCHANGED <<ctlFrame, recording, exiting, ser_open, ser_out,
                   inf_control_queue, presses, starts, stops>>

\* start_acquisition lines 125-126
StartWrite ==
    /\ pc["cb"] = "start_write"
    /\ IF ~ser_open
       THEN Goto("cb", "idle") /\ UNCHANGED ser_out
       ELSE Goto("cb", "start_ack") /\ ser_out' = Append(ser_out, "START")
    /\ UNCHANGED <<ctlFrame, recording, status_queue, exiting, ser_open,
                   inf_control_queue, presses, starts, stops>>

\* start_acquisition lines 128-139: the acknowledgment is read and logged, or missed
StartAck ==
    /\ pc["cb"] = "start_ack"
    /\ IF ~ser_open
       THEN Goto("cb", "idle") /\ UNCHANGED status_queue
       ELSE /\ Goto("cb", "start_status")
            /\ \E msg \in {"INFO:pico_ack", "WARN:binary_in_ack", "WARN:no_ack"} :
                 status_queue' = Append(status_queue, msg)
    /\ UNCHANGED <<ctlFrame, recording, exiting, ser_open, ser_out,
                   inf_control_queue, presses, starts, stops>>

\* start_acquisition line 141
StartStatus ==
    /\ pc["cb"] = "start_status"
    /\ status_queue' = Append(status_queue, "STATUS:RECORDING_START")
    /\ Goto("cb", "idle")
    /\ UNCHANGED <<ctlFrame, recording, exiting, ser_open, ser_out,
                   inf_control_queue, presses, starts, stops>>

\* stop_acquisition lines 145-146
StopCheck(th) ==
    /\ pc[th] = "stop_check"
    /\ Goto(th, IF ~recording THEN StopReturn(th) ELSE "stop_set")
    /\ UNCHANGED <<ctlFrame, recording, status_queue, exiting, ser_open, ser_out,
                   inf_control_queue, presses, starts, stops>>

\* stop_acquisition line 148
StopSet(th) ==
    /\ pc[th] = "stop_set"
    /\ recording' = FALSE
    /\ stops' = IF recording THEN stops + 1 ELSE stops
    /\ Goto(th, "stop_write")
    /\ UNCHANGED <<ctlFrame, status_queue, exiting, ser_open, ser_out,
                   inf_control_queue, presses, starts>>

\* stop_acquisition lines 150-154: a failing write is swallowed
StopWrite(th) ==
    /\ pc[th] = "stop_write"
    /\ ser_out' = IF ser_open THEN Append(ser_out, "STOP") ELSE ser_out
    /\ Goto(th, "stop_status")
    /\ UNCHANGED <<ctlFrame, recording, status_queue, exiting, ser_open,
                   inf_control_queue, presses, starts, stops>>

\* stop_acquisition line 156
StopStatus(th) ==
    /\ pc[th] = "stop_status"
    /\ status_queue' = Append(status_queue, "STATUS:RECORDING_STOP")
    /\ Goto(th, "stop_token")
    /\ UNCHANGED <<ctlFrame, recording, exiting, ser_open, ser_out,
                   inf_control_queue, presses, starts, stops>>

\* stop_acquisition line 157
StopToken(th) ==
    /\ pc[th] = "stop_token"
    /\ inf_control_queue' = Append(inf_control_queue, "STOP_SESSION")
    /\ Goto(th, StopReturn(th))
    /\ UNCHANGED <<ctlFrame, recording, status_queue, exiting, ser_open, ser_out,
                   presses, starts, stops>>

\* run lines 350-355: acquisition_loop is left (an interrupt) and cleanup begins
LoopLeft ==
    /\ pc["main"] = "loop"
    /\ Goto("main", "cl_exiting")
    /\ UNCHANGED <<ctlFrame, recording, status_queue, exiting, ser_open, ser_out,
                   inf_control_queue, presses, starts, stops>>

\* cleanup line 359
CleanupExiting ==
    /\ pc["main"] = "cl_exiting"
    /\ exiting' = TRUE
    /\ Goto("main", "cl_recording")
    /\ UNCHANGED <<ctlFrame, recording, status_queue, ser_open, ser_out,
                   inf_control_queue, presses, starts, stops>>

\* cleanup lines 360-361
CleanupCheckRecording ==
    /\ pc["main"] = "cl_recording"
    /\ Goto("main", IF recording THEN "stop_check" ELSE "cl_close")
    /\ UNCHANGED <<ctlFrame, recording, status_queue, exiting, ser_open, ser_out,
                   inf_control_queue, presses, starts, stops>>

\* cleanup lines 363-364
CleanupClose ==
    /\ pc["main"] = "cl_close"
    /\ ser_open' = FALSE
    /\ Goto("main", "cl_status")
    /\ UNCHANGED <<ctlFrame, recording, status_queue, exiting, ser_out,
                   inf_control_queue, presses, starts, stops>>

\* cleanup line 366
CleanupStatus ==
    /\ pc["main"] = "cl_status"
    /\ status_queue' = Append(status_queue, "INFO:acquisition_terminated")
    /\ Goto("main", "done")
    /\ UNCHANGED <<ctlFrame, recording, exiting, ser_open, ser_out,
                   inf_control_queue, presses, starts, stops>>

ControlInit ==
    /\ stream = <<>>
    /\ cyclic = FALSE
    /\ pos = 0
    /\ arrived = 0
    /\ drops = 0
    /\ running = TRUE
    /\ recording = FALSE
    /\ packet_count = 0
    /\ read_calls = 0
    /\ last_ret = "none"
    /\ last_depth = 0
    /\ last_lim = 0
    /\ packet_queue = <<>>
    /\ packet_at = <<>>
    /\ status_queue = <<>>
    /\ WindowerIdle
    /\ ControlIdle
    /\ DownstreamIdle
    /\ PipelineStarted
    /\ RestIdle
    /\ ChannelIdle

ControlNext ==
    \/ ButtonPress \/ ToggleCheckExiting \/ ToggleCheckRecording
    \/ StartCheck \/ StartSet \/ StartReset \/ StartWrite \/ StartAck \/ StartStatus
    \/ \E th \in Threads :
         StopCheck(th) \/ StopSet(th) \/ StopWrite(th) \/ StopStatus(th) \/ StopToken(th)
    \/ LoopLeft \/ CleanupExiting \/ CleanupCheckRecording \/ CleanupClose
    \/ CleanupStatus

SpecControl == ControlInit /\ [][ControlNext]_vars

(***************************************************************************)
(* The acquisition loop against the button callback.  The main thread runs *)
(* acquisition_loop in four steps (the test of self.recording, the test of *)
(* in_waiting, _read_packet, packet_queue.put); the callback thread runs   *)
(* start_acquisition and stop_acquisition statement by statement.  The     *)
(* input buffer holds whole frames, each known by the recording the sender *)
(* sampled it for (the number of its START command).  The periodic DEBUG   *)
(* reports of the loop depend on the wall clock alone and are left out.    *)
(***************************************************************************)
raceFrame == <<serVars, running, read_calls, last_ret, last_depth, last_lim, packet_at,
               segVars, feedVars, filtVars, infVars, lifeVars, chanVars, normVars,
               sndVars, scan, rec_marks, libVars>>

\* START commands among the first n command lines written
StartsWritten(n) == Cardinality({i \in 1..n : ser_out[i] = "START"})

\* the sender's check_command takes the next command line: START begins a
\* recording unless one is running, STOP ends it
DeviceCommand ==
    /\ dev_seen < Len(ser_out)
    /\ dev_seen' = dev_seen + 1
    /\ dev_rec' = IF ser_out[dev_seen + 1] = "START"
                  THEN (IF dev_rec = 0 THEN StartsWritten(dev_seen + 1) ELSE dev_rec)
                  ELSE 0
    /\ UNCHANGED <<raceFrame, recording, packet_count, packet_queue, status_queue,
                   ctlVars, in_buf, dev_frames, held, put_log>>

\* the sender's buffer is full: a frame of the running recording is written and
\* reaches the input buffer of the port
DeviceFrame ==
    /\ dev_rec # 0
    /\ ser_open
    /\ dev_frames < MaxRaceFrames
    /\ dev_frames' = dev_frames + 1
    /\ in_buf' = Append(in_buf, dev_rec)
    /\ UNCHANGED <<raceFrame, recording, packet_count, packet_queue, status_queue,
                   ctlVars, dev_rec, dev_seen, held, put_log>>

\* start_acquisition lines 120-123 on the input buffer: reset_input_buffer discards
\* what is waiting, and it is reported when there was something
RaceStartReset ==
    /\ pc["cb"] = "start_reset"
    /\ ser_open
    /\ in_buf' = <<>>
    /\ status_queue' = IF in_buf # <<>> THEN Append(status_queue, "DEBUG:cleared")
                       ELSE status_queue
    /\ Goto("cb", "start_write")
    /\ UNCHANGED <<raceFrame, recording, packet_count, packet_queue, exiting, ser_open,
                   ser_out, inf_control_queue, presses, starts, stops, dev_rec,
                   dev_seen, dev_frames, held, put_log>>

\* acquisition_loop lines 317-318 and 341-343: the recording flag is tested
LoopCheck ==
    /\ pc["main"] = "loop"
    /\ running
    /\ IF recording
       THEN Goto("main", "in_waiting") /\ UNCHANGED packet_count
       ELSE packet_count' = 0 /\ UNCHANGED pc
    /\ UNCHANGED <<raceFrame, recording, packet_queue, status_queue, exiting, ser_open,
                   ser_out, inf_control_queue, presses, starts, stops, raceVars>>

\* acquisition_loop lines 325 and 339-340: a whole frame is waiting, or the loop sleeps
LoopInWaiting ==
    /\ pc["main"] = "in_waiting"
    /\ Goto("main", IF in_buf # <<>> THEN "read" ELSE "loop")
    /\ UNCHANGED <<raceFrame, recording, packet_count, packet_queue, status_queue,
                   exiting, ser_open, ser_out, inf_control_queue, presses, starts,
                   stops, raceVars>>

\* acquisition_loop line 326: _read_packet takes the frame at the head of the input
\* buffer; on an emptied buffer the read times out and None is returned
LoopRead ==
    /\ pc["main"] = "read"
    /\ IF in_buf # <<>>
       THEN /\ held' = <<Head(in_buf)>>
            /\ in_buf' = Tail(in_buf)
            /\ Goto("main", "put")
       ELSE /\ UNCHANGED <<held, in_buf>>
            /\ Goto("main", "loop")
    /\ UNCHANGED <<raceFrame, recording, packet_count, packet_queue, status_queue,
                   exiting, ser_open, ser_out, inf_control_queue, presses, starts,
                   stops, dev_rec, dev_seen, dev_frames, put_log>>

\* acquisition_loop lines 328-334: the packet read is put and counted
LoopPut ==
    /\ pc["main"] = "put"
    /\ packet_queue' = Append(packet_queue, held[1])
    /\ packet_count' = packet_count + 1
    /\ status_queue' = IF packet_count + 1 = 1
                       THEN Append(status_queue, "INFO:first_packet")
                       ELSE status_queue
    /\ put_log' = Append(put_log, [rec    |-> held[1],
                                   starts |-> starts,
                                   tokens |-> Len(inf_control_queue),
                                   flag   |-> recording])
    /\ held' = <<>>
    /\ Goto("main", "loop")
    /\ UNCHANGED <<raceFrame, recording, exiting, ser_open, ser_out, inf_control_queue,
                   presses, starts, stops, in_buf, dev_rec, dev_seen, dev_frames>>

RaceNext ==
    \/ ButtonPress \/ ToggleCheckExiting \/ ToggleCheckRecording
    \/ StartCheck \/ StartSet \/ RaceStartReset \/ StartWrite \/ StartAck \/ StartStatus
    \/ StopCheck("cb") \/ StopSet("cb") \/ StopWrite("cb") \/ StopStatus("cb")
    \/ StopToken("cb")
    \/ DeviceCommand \/ DeviceFrame
    \/ LoopCheck \/ LoopInWaiting \/ LoopRead \/ LoopPut

SpecRace == ControlInit /\ [][RaceNext]_vars

(***************************************************************************)
(* Shutdown (deploy_main.py).  Every worker is a process of its own with   *)
(* its own `running` attribute, set by its run() and tested by its loop.   *)
(* Time is counted in receive-timeout intervals (0.1 s, the timeout of     *)
(* every blocking get): a worker in its loop evaluates the loop condition  *)
(* at least once per interval; join(timeout=5.0) waits 50 of them.         *)
(***************************************************************************)
lifeFrame == <<serVars, acqVars, packet_queue, packet_at, status_queue, segVars,
               feedVars, ctlVars, filtVars, infVars, chanVars, restVars>>

\* the stages the data flows through
Stages == {"acquisition", "segmentation", "filtering", "inference"}

\* run lines 160-165 and 172-177: a signal or an interrupt ends the monitor loop and
\* shutdown_pipeline is entered.  Ctrl+C on the terminal reaches every process of
\* the group; a signal sent to the orchestrator reaches it alone.
ShutdownSignal ==
    /\ orch_pc = "monitor"
    /\ orch_pc' = "shutdown"
    /\ \E to_group \in BOOLEAN :
         interrupted' = [w \in Workers |-> to_group /\ worker_state[w] = "loop"]
    /\ UNCHANGED <<lifeFrame, orch_running, join_idx, join_waited, worker_state,
                   worker_running, iterated, elapsed>>

\* shutdown_pipeline line 137
ShutdownClearRunning ==
    /\ orch_pc = "shutdown"
    /\ orch_running' = FALSE
    /\ orch_pc' = "join"
    /\ join_idx' = 1
    /\ join_waited' = 0
    /\ elapsed' = 0
    /\ UNCHANGED <<lifeFrame, worker_state, worker_running, interrupted, iterated>>

\* a worker's `while self.running`: its own attribute is what it tests
WorkerIterate(w) ==
    /\ worker_state[w] = "loop"
    /\ ~interrupted[w]
    /\ ~iterated[w]
    /\ iterated' = [iterated EXCEPT ![w] = TRUE]
    /\ worker_state' = [worker_state EXCEPT
                           ![w] = IF worker_running[w] THEN "loop" ELSE "cleanup"]
    /\ UNCHANGED <<lifeFrame, orch_running, orch_pc, join_idx, join_waited,
                   worker_running, interrupted, elapsed>>

\* a worker's run(): except KeyboardInterrupt: pass / finally: cleanup
WorkerInterrupted(w) ==
    /\ worker_state[w] = "loop"
    /\ interrupted[w]
    /\ interrupted' = [interrupted EXCEPT ![w] = FALSE]
    /\ worker_state' = [worker_state EXCEPT ![w] = "cleanup"]
    /\ UNCHANGED <<lifeFrame, orch_running, orch_pc, join_idx, join_waited,
                   worker_running, iterated, elapsed>>

\* a worker's cleanup() ends and the process exits
WorkerExits(w) ==
    /\ worker_state[w] = "cleanup"
    /\ worker_state' = [worker_state EXCEPT ![w] = "exited"]
    /\ UNCHANGED <<lifeFrame, orch_running, orch_pc, join_idx, join_waited,
                   worker_running, interrupted, iterated, elapsed>>

\* one receive-timeout interval passes: by then every worker in its loop has come
\* back to its loop condition, and an interrupt or a cleanup under way has been
\* carried out
IntervalPasses ==
    /\ orch_pc \in {"monitor", "join"}
    /\ \A w \in Workers : worker_state[w] = "loop" => (iterated[w] /\ ~interrupted[w])
    /\ \A w \in Workers : worker_state[w] # "cleanup"
    /\ orch_pc = "join" => join_waited < JOIN_TIMEOUT_INTERVALS
    /\ orch_pc = "monitor" => \E w \in Workers : iterated[w]
    /\ iterated' = [w \in Workers |-> FALSE]
    /\ join_waited' = IF orch_pc = "join" THEN join_waited + 1 ELSE join_waited
    /\ elapsed' = IF orch_running THEN elapsed
                  ELSE IF elapsed < MaxElapsed THEN elapsed + 1 ELSE elapsed
    /\ UNCHANGED <<lifeFrame, orch_running, orch_pc, join_idx, worker_state,
                   worker_running, interrupted>>

Alive(w) == worker_state[w] \in {"loop", "cleanup"}

\* where shutdown_pipeline goes after the process at join_idx
AfterJoin ==
    IF join_idx < Len(PROCESSES)
    THEN /\ join_idx' = join_idx + 1
         /\ orch_pc' = "join"
    ELSE /\ join_idx' = join_idx
         /\ orch_pc' = "close"

\* shutdown_pipeline lines 141-143: the process is not alive, or its join returns
\* because it ended
JoinReturns ==
    /\ orch_pc = "join"
    /\ ~Alive(PROCESSES[join_idx])
    /\ AfterJoin
    /\ join_waited' = 0
    /\ UNCHANGED <<lifeFrame, orch_running, worker_state, worker_running, interrupted,
                   iterated, elapsed>>

\* shutdown_pipeline lines 145-148: the join timed out and the process is terminated
JoinTimesOut ==
    /\ orch_pc = "join"
    /\ Alive(PROCESSES[join_idx])
    /\ join_waited = JOIN_TIMEOUT_INTERVALS
    /\ worker_state' = [worker_state EXCEPT ![PROCESSES[join_idx]] = "terminated"]
    /\ AfterJoin
    /\ join_waited' = 0
    /\ UNCHANGED <<lifeFrame, orch_running, worker_running, interrupted, iterated,
                   elapsed>>

\* shutdown_pipeline lines 150-156
ShutdownCloses ==
    /\ orch_pc = "close"
    /\ orch_pc' = "done"
    /\ UNCHANGED <<lifeFrame, orch_running, join_idx, join_waited, worker_state,
                   worker_running, interrupted, iterated, elapsed>>

QuiescentStages ==
    /\ stream = <<>>
    /\ cyclic = FALSE
    /\ pos = 0
    /\ arrived = 0
    /\ drops = 0
    /\ running = TRUE
    /\ packet_count = 0
    /\ read_calls = 0
    /\ last_ret = "none"
    /\ last_depth = 0
    /\ last_lim = 0
    /\ packet_queue = <<>>
    /\ packet_at = <<>>
    /\ status_queue = <<>>
    /\ WindowerIdle
    /\ ControlIdle
    /\ DownstreamIdle

ShutdownInit ==
    /\ QuiescentStages
    /\ recording \in BOOLEAN
    /\ PipelineStarted
    /\ RestIdle
    /\ ChannelIdle

ShutdownNext ==
    \/ ShutdownSignal \/ ShutdownClearRunning
    \/ \E w \in Workers : WorkerIterate(w) \/ WorkerInterrupted(w) \/ WorkerExits(w)
    \/ IntervalPasses \/ JoinReturns \/ JoinTimesOut \/ ShutdownCloses

SpecShutdown == ShutdownInit /\ [][ShutdownNext]_vars

(***************************************************************************)
(* The inference process at shutdown.  Its loop ends when its own          *)
(* `running` is false (then a session still active is stopped, lines       *)
(* 300-301), or by an interrupt, which run() catches and follows with      *)
(* cleanup() alone; a process still alive after the join is terminated.    *)
(***************************************************************************)
endFrame == <<serVars, acqVars, packet_queue, packet_at, segVars, feedVars, ctlVars,
              filtVars, inf_pc, interpreter, files, now, taken, orch_running, orch_pc,
              join_idx, join_waited, worker_running, elapsed, chanVars, restVars>>

\* cleanup line 326: what it puts on the status queue
CleanupStatusOf == <<"INFO:inference_terminated">>

\* inference_loop line 273, `while self.running`, at the top of an iteration: the
\* loop goes on, or ends with stop_session for an active session (lines 300-301),
\* cleanup (run's finally) and the end of the process
InferenceLoopTest ==
    /\ worker_state["inference"] = "loop"
    /\ ~interrupted["inference"]
    /\ inf_pc = "control"
    /\ ~iterated["inference"]
    /\ iterated' = [iterated EXCEPT !["inference"] = TRUE]
    /\ IF worker_running["inference"]
       THEN UNCHANGED <<worker_state, session_active, current_session, signal_file,
                        filtered_file, annotation_file, inference_count,
                        samples_written, status_queue>>
       ELSE /\ worker_state' = [worker_state EXCEPT !["inference"] = "exited"]
            /\ signal_file' = <<>>
            /\ filtered_file' = <<>>
            /\ annotation_file' = <<>>
            /\ status_queue' = status_queue
                                \o (IF session_active THEN StopSessionStatus ELSE <<>>)
                                \o CleanupStatusOf
            /\ current_session' = IF session_active THEN <<>> ELSE current_session
            /\ samples_written' = IF session_active THEN 0 ELSE samples_written
            /\ inference_count' = IF session_active THEN 0 ELSE inference_count
            /\ UNCHANGED session_active
    /\ UNCHANGED <<endFrame, interrupted>>

\* run lines 308-313 and cleanup: KeyboardInterrupt leaves inference_loop where it
\* is, run() passes over it and cleanup() closes the files and reports the end
InferenceInterrupted ==
    /\ worker_state["inference"] = "loop"
    /\ interrupted["inference"]
    /\ interrupted' = [interrupted EXCEPT !["inference"] = FALSE]
    /\ worker_state' = [worker_state EXCEPT !["inference"] = "exited"]
    /\ signal_file' = <<>>
    /\ filtered_file' = <<>>
    /\ annotation_file' = <<>>
    /\ status_queue' = status_queue \o CleanupStatusOf
    /\ UNCHANGED <<endFrame, iterated, session_active, current_session, inference_count,
                   samples_written>>

\* shutdown_pipeline lines 141-148 for the inference process: the join on it has
\* timed out, for nothing clears the `running` its loop tests, and it is terminated
InferenceTerminated ==
    /\ orch_pc = "join"
    /\ worker_state["inference"] = "loop"
    /\ ~interrupted["inference"]
    /\ worker_running["inference"]
    /\ worker_state' = [worker_state EXCEPT !["inference"] = "terminated"]
    /\ UNCHANGED <<endFrame, interrupted, iterated, session_active, current_session,
                   signal_file, filtered_file, annotation_file, inference_count,
                   samples_written, status_queue>>

SessionEndNext ==
    \/ RecordingPacketPut \/ SegmentationStep \/ FilteringStep
    \/ InferenceControl \/ InferenceSegment
    \/ ShutdownSignal \/ ShutdownClearRunning
    \/ InferenceLoopTest \/ InferenceInterrupted \/ InferenceTerminated

SpecSessionEnd == PipelineInit /\ [][SessionEndNext]_vars

(***************************************************************************)
(* process_segment call by call.  A value of a float array is known by the *)
(* index of the extended window it stems from and by the operations it     *)
(* went through, each with the length of the array it was applied to.      *)
(* Every scipy call is entered in lib_calls.  The input is a segment as    *)
(* the windower cuts it: window k of a recording started at t0.            *)
(***************************************************************************)
filtFrame == <<serVars, acqVars, packet_queue, packet_at, status_queue, segVars,
               feedVars, ctlVars, filtVars, infVars, lifeVars, chanVars, normVars,
               sndVars, scan, recVars>>

\* window k as _create_segment cuts it from a recording with no frame lost
WindowNo(t0, k) ==
    LET buf == [j \in 1..(SEGMENT_SIZE + OVERLAP_SIZE) |->
                   <<SampleTime(t0, k * SEGMENT_SIZE + j - 1),
                     SampleAdc(t0, k * SEGMENT_SIZE + j - 1)>>]
        overlap == IF k = 0 THEN <<>> ELSE Slice(buf, 0, OVERLAP_SIZE)
    IN  SegmentOf(ExtendedSamples(overlap, buf), Len(overlap), k)

FilterInputs == {WindowNo(t0, k) : t0 \in StartTimes, k \in 0..(MaxFilterWindows - 1)}

\* apply_filtering_pipeline line 103, signal.astype(np.float32)
AsFloat(signal) == [i \in 1..Len(signal) |-> [src |-> i - 1, ops |-> <<>>]]

\* sp_signal.filtfilt and the normalization: every value of the result depends on
\* the whole array given
Applied(op, signal_data) ==
    [i \in 1..Len(signal_data) |->
        [src |-> signal_data[i].src,
         ops |-> Append(signal_data[i].ops, <<op, Len(signal_data)>>)]]

LibCall(fn, signal_data) == [fn |-> fn, n |-> Len(signal_data)]

\* apply_notch_filter lines 84-90
ApplyNotchFilter(signal_data) == Applied("notch", signal_data)
NotchCalls(signal_data) == <<LibCall("iirnotch", <<>>), LibCall("filtfilt", signal_data)>>

\* apply_fir_lowpass lines 48-68
ApplyFirLowpass(signal_data) == Applied("fir_lowpass", signal_data)
FirCalls(signal_data) == <<LibCall("remez", <<>>), LibCall("filtfilt", signal_data)>>

\* apply_iir_highpass lines 70-82
ApplyIirHighpass(signal_data) == Applied("iir_highpass", signal_data)
HighpassCalls(signal_data) ==
    <<LibCall("ellipord", <<>>), LibCall("ellip", <<>>), LibCall("filtfilt", signal_data)>>

\* faulty variant: the low-pass runs ahead of the notch
FilterChain_LowpassFirst(signal) ==
    ApplyIirHighpass(ApplyNotchFilter(ApplyFirLowpass(AsFloat(signal))))

\* apply_filtering_pipeline lines 101-109
FilterChain(signal) == ApplyIirHighpass(ApplyFirLowpass(ApplyNotchFilter(AsFloat(signal))))

FilterChainCalls(signal) == NotchCalls(signal) \o FirCalls(signal) \o HighpassCalls(signal)

\* normalize_segment lines 92-99 on the array given
NormalizeOver(signal_data) == Applied("normalize", signal_data)

\* faulty variant: the raw core is taken from the start of the extended array
ProcessSegmentSteps_RawFromStart(segment) ==
    LET filtered_extended == FilterChain(segment.extended_adc_value)
        filtered_core == Slice(filtered_extended, segment.core_start_idx, segment.core_end_idx)
    IN  [segment_id       |-> segment.segment_id,
         timestamp_ms     |-> segment.timestamp_ms,
         start_time       |-> segment.start_time,
         end_time         |-> segment.end_time,
         raw_signal       |-> Slice(segment.extended_adc_value, 0, SEGMENT_SIZE),
         filtered_signal  |-> filtered_core,
         processed_signal |-> NormalizeOver(filtered_core),
         sample_count     |-> segment.sample_count]

\* process_segment lines 111-138
ProcessSegmentSteps(segment) ==
    LET filtered_extended == FilterChain(segment.extended_adc_value)
        filtered_core == Slice(filtered_extended, segment.core_start_idx, segment.core_end_idx)
        raw_core == Slice(segment.extended_adc_value, segment.core_start_idx,
                          segment.core_end_idx)
    IN  [segment_id       |-> segment.segment_id,
         timestamp_ms     |-> segment.timestamp_ms,
         start_time       |-> segment.start_time,
         end_time         |-> segment.end_time,
         raw_signal       |-> raw_core,
         filtered_signal  |-> filtered_core,
         processed_signal |-> NormalizeOver(filtered_core),
         sample_count     |-> segment.sample_count]

\* filtering_loop line 146: the next segment is got
FilterGetsSegment ==
    /\ flt_in = <<>> \/ flt_out # <<>>
    /\ flt_count < MaxFilterWindows
    /\ \E segment \in FilterInputs : flt_in' = <<segment>>
    /\ flt_out' = <<>>
    /\ UNCHANGED <<filtFrame, flt_count, lib_calls>>

\* filtering_loop line 148: process_segment is called with it and returns
ProcessSegmentCall ==
    /\ flt_in # <<>>
    /\ flt_out = <<>>
    /\ flt_out' = <<ProcessSegmentSteps(flt_in[1])>>
    /\ lib_calls' = lib_calls \o FilterChainCalls(flt_in[1].extended_adc_value)
    /\ flt_count' = flt_count + 1
    /\ UNCHANGED <<filtFrame, flt_in>>

FilterInit ==
    /\ QuiescentStages
    /\ recording = TRUE
    /\ PipelineStarted
    /\ ChannelIdle
    /\ RestIdle

FilterNext == FilterGetsSegment \/ ProcessSegmentCall

SpecFilter == FilterInit /\ [][FilterNext]_vars

(***************************************************************************)
(* One data queue between its producer and its consumer.  The three data   *)
(* queues are built alike, mp.Queue(maxsize=QUEUE_MAXSIZE), every put on   *)
(* them is queue.put(item) with no timeout and every get is                *)
(* queue.get(timeout=0.1).  Items are numbered in the order of the puts.   *)
(***************************************************************************)
chanFrame == <<serVars, acqVars, packet_queue, packet_at, status_queue, segVars,
               feedVars, ctlVars, filtVars, infVars, lifeVars, restVars, chan_name>>

PutHasRoom_Always(q) == TRUE      \* faulty variant: a queue without a capacity

\* mp.Queue.put acquires one of maxsize slots, which a get releases
PutHasRoom(q) == Len(q) < QUEUE_MAXSIZE

\* the producer passes its loop condition, has an item and calls put
\* (deploy_acquisition.py line 330, deploy_segmentation.py line 89,
\* deploy_filtering.py line 150)
ProducerCallsPut ==
    /\ put_pc = "loop"
    /\ put_count < QUEUE_MAXSIZE + MaxExtraPuts
    /\ put_pc' = "put"
    /\ UNCHANGED <<chanFrame, chan, put_count, received, consumer_alive, last_get>>

\* put(item) returns: only once a slot is free, it has no timeout
PutReturns ==
    /\ put_pc = "put"
    /\ PutHasRoom(chan)
    /\ chan' = Append(chan, put_count)
    /\ put_count' = put_count + 1
    /\ put_pc' = "loop"
    /\ UNCHANGED <<chanFrame, received, consumer_alive, last_get>>

\* the consumer's get(timeout=0.1) returns the oldest item
\* (deploy_segmentation.py line 82, deploy_filtering.py line 146,
\* deploy_inference.py line 283)
GetReturns ==
    /\ consumer_alive
    /\ chan # <<>>
    /\ received' = Append(received, Head(chan))
    /\ chan' = Tail(chan)
    /\ last_get' = "item"
    /\ UNCHANGED <<chanFrame, put_pc, put_count, consumer_alive>>

\* the consumer's get(timeout=0.1) raises Empty and its loop continues
GetTimesOut ==
    /\ consumer_alive
    /\ chan = <<>>
    /\ last_get' = "empty"
    /\ UNCHANGED <<chanFrame, chan, put_pc, put_count, received, consumer_alive>>

\* the consumer process ends: interrupted, terminated or crashed
ConsumerStops ==
    /\ consumer_alive
    /\ consumer_alive' = FALSE
    /\ UNCHANGED <<chanFrame, chan, put_pc, put_count, received, last_get>>

QueueInit ==
    /\ QuiescentStages
    /\ recording = FALSE
    /\ PipelineStarted
    /\ RestIdle
    /\ chan_name \in DATA_QUEUES
    /\ chan = <<>>
    /\ put_pc = "loop"
    /\ put_count = 0
    /\ received = <<>>
    /\ consumer_alive = TRUE
    /\ last_get = "none"

QueueNext == ProducerCallsPut \/ PutReturns \/ GetReturns \/ GetTimesOut \/ ConsumerStops

SpecQueue == QueueInit /\ [][QueueNext]_vars

(***************************************************************************)
(* normalize_segment (deploy_filtering.py lines 92-99), computed on        *)
(* float64 arrays.  A window here has integer values; a quotient is kept   *)
(* as its numerator and its denominator, and the denominator               *)
(* max - min + 1e-8 as the range and whether the 1e-8 is part of the       *)
(* float64 sum: from 2^27 on, 1e-8 is less than half the distance between  *)
(* neighbouring floats and the sum is the range itself.                    *)
(***************************************************************************)
FLOAT64_ABSORB == 134217728

NormValues == (-1..MaxNormValue) \cup {FLOAT64_ABSORB}

NormWindows == [1..NormLen -> NormValues]

SeqMin(x) == Least({x[i] : i \in 1..Len(x)})

SeqMax(x) == -Least({-x[i] : i \in 1..Len(x)})

\* faulty variant: the denominator is the bare range
Denominator_NoEpsilon(range) == [range |-> range, eps |-> FALSE]

\* line 97: max_val - min_val + 1e-8
Denominator(range) == [range |-> range, eps |-> range < FLOAT64_ABSORB]

\* lines 94-99
NormalizeSegment(signal_data) ==
    LET min_val == SeqMin(signal_data)
        max_val == SeqMax(signal_data)
    IN  [i \in 1..Len(signal_data) |->
            [num |-> signal_data[i] - min_val, den |-> Denominator(max_val - min_val)]]

normFrame == <<serVars, acqVars, packet_queue, packet_at, status_queue, segVars,
               feedVars, ctlVars, filtVars, infVars, lifeVars, chanVars, sndVars, scan, recVars, libVars>>

\* process_segment line 125: normalize_segment is called with the filtered core
NormalizeCall ==
    /\ norm_out = <<>>
    /\ norm_out' = NormalizeSegment(norm_in)
    /\ UNCHANGED <<normFrame, norm_in>>

\* the filtering loop comes to its next window
NormalizeNextWindow ==
    /\ norm_out # <<>>
    /\ norm_in' \in NormWindows
    /\ norm_out' = <<>>
    /\ UNCHANGED normFrame

NormalizeInit ==
    /\ QuiescentStages
    /\ recording = FALSE
    /\ PipelineStarted
    /\ ChannelIdle
    /\ SenderIdle
    /\ scan = <<>>
    /\ RecordingsIdle
    /\ FilterIdle
    /\ norm_in \in NormWindows
    /\ norm_out = <<>>

NormalizeNext == NormalizeCall \/ NormalizeNextWindow

SpecNormalize == NormalizeInit /\ [][NormalizeNext]_vars

(***************************************************************************)
(* The sender (deploy_pico.py).  Its main thread polls stdin in            *)
(* check_command; the sampling timer's callback runs between two steps of  *)
(* the main thread and to its end.  snd_out lists the writes to stdout:    *)
(* the text lines, and per frame the marker and the data, each with the    *)
(* recording it belongs to.                                                *)
(***************************************************************************)
sndFrame == <<serVars, acqVars, packet_queue, packet_at, status_queue, segVars,
              feedVars, ctlVars, filtVars, infVars, lifeVars, chanVars, normVars, scan, recVars, libVars>>

SenderCommands == {"START", "STOP", "PING"}

TextWrite(line) == [kind |-> "text", rec |-> 0, size |-> 0, line |-> line]

\* _flush_buffer lines 78-83: the marker, then the first buffer_index samples
FlushWrites(rec, index) ==
    <<[kind |-> "marker", rec |-> rec, size |-> Len(MARKER), line |-> ""],
      [kind |-> "data", rec |-> rec, size |-> index * SAMPLE_BYTES, line |-> ""]>>

\* the receiver writes a command line to the sender
SenderReceives ==
    /\ snd_cmds < MaxSenderCommands
    /\ \E line \in SenderCommands : snd_stdin' = Append(snd_stdin, line)
    /\ snd_cmds' = snd_cmds + 1
    /\ UNCHANGED <<sndFrame, is_recording, buffer_index, timer_on, snd_pc, snd_out,
                   snd_rec, snd_samples>>

\* check_command lines 91-104, up to the call that carries the command out
CheckCommand ==
    /\ snd_pc = "poll"
    /\ snd_stdin # <<>>
    /\ snd_stdin' = Tail(snd_stdin)
    /\ \E command \in {Head(snd_stdin)} :
         /\ snd_pc' = IF command = "START" THEN "start"
                      ELSE IF command = "STOP" THEN "stop" ELSE "poll"
         /\ snd_out' = IF command = "PING" THEN Append(snd_out, TextWrite("PONG"))
                       ELSE Append(snd_out, TextWrite("ACK"))
    /\ UNCHANGED <<sndFrame, is_recording, buffer_index, timer_on, snd_rec, snd_samples,
                   snd_cmds>>

\* start_recording
StartRecording ==
    /\ snd_pc = "start"
    /\ snd_pc' = "poll"
    /\ IF ~is_recording
       THEN /\ is_recording' = TRUE
            /\ buffer_index' = 0
            /\ timer_on' = TRUE
            /\ snd_rec' = snd_rec + 1
       ELSE UNCHANGED <<is_recording, buffer_index, timer_on, snd_rec>>
    /\ UNCHANGED <<sndFrame, snd_stdin, snd_out, snd_samples, snd_cmds>>

\* stop_recording: the samples buffered so far are flushed as a last, short frame
StopRecording ==
    /\ snd_pc = "stop"
    /\ snd_pc' = "poll"
    /\ IF is_recording
       THEN /\ timer_on' = FALSE
            /\ is_recording' = FALSE
            /\ buffer_index' = 0
            /\ snd_out' = IF buffer_index > 0
                          THEN snd_out \o FlushWrites(snd_rec, buffer_index)
                          ELSE snd_out
       ELSE UNCHANGED <<timer_on, is_recording, buffer_index, snd_out>>
    /\ UNCHANGED <<sndFrame, snd_stdin, snd_rec, snd_samples, snd_cmds>>

\* _sample_callback: one sample is buffered, and a full buffer is flushed
SampleCallback ==
    /\ timer_on
    /\ snd_samples < MaxSenderSamples
    /\ snd_samples' = snd_samples + 1
    /\ IF buffer_index < BUFFER_SIZE
       THEN IF buffer_index + 1 >= BUFFER_SIZE
            THEN /\ snd_out' = snd_out \o FlushWrites(snd_rec, buffer_index + 1)
                 /\ buffer_index' = 0
            ELSE /\ buffer_index' = buffer_index + 1
                 /\ snd_out' = snd_out
       ELSE UNCHANGED <<buffer_index, snd_out>>
    /\ UNCHANGED <<sndFrame, is_recording, timer_on, snd_pc, snd_stdin, snd_rec, snd_cmds>>

SenderInit ==
    /\ QuiescentStages
    /\ recording = FALSE
    /\ PipelineStarted
    /\ ChannelIdle
    /\ NormalizerIdle
    /\ SenderIdle
    /\ scan = <<>>
    /\ RecordingsIdle
    /\ FilterIdle

SenderNext ==
    SenderReceives \/ CheckCommand \/ StartRecording \/ StopRecording \/ SampleCallback

SpecSender == SenderInit /\ [][SenderNext]_vars

(***************************************************************************)
(* Properties of the recording control                                     *)
(***************************************************************************)
InStop(th) == pc[th] \in {"stop_check", "stop_set", "stop_write", "stop_status", "stop_token"}

(***************************************************************************)
(* C10  Session-ended signal exactly once per stop: the 'STOP_SESSION'     *)
(* tokens on the control channel never outnumber the recordings that were  *)
(* stopped, and with no thread inside stop_acquisition there is exactly    *)
(* one token per stopped recording.                                        *)
(***************************************************************************)
C10_TokenPerStop ==
    /\ Len(inf_control_queue) <= stops
    /\ (\A th \in Threads : ~InStop(th)) => Len(inf_control_queue) = stops

(***************************************************************************)
(* C38  No serial use after exit: from a state in which cleanup has set    *)
(* exiting and closed the serial port, no step sets recording to true and  *)
(* no step writes a START or STOP command to the port.                     *)
(***************************************************************************)
C38_NoSerialUseAfterExit ==
    [][(exiting /\ ~ser_open)
       => /\ ~(~recording /\ recording')
          /\ ser_out' = ser_out]_vars

\* the RECORDING_START and RECORDING_STOP messages of the status queue, in order
RecordingMessages ==
    SelectSeq(status_queue,
              LAMBDA m : m \in {"STATUS:RECORDING_START", "STATUS:RECORDING_STOP"})

RecordingStarts == SelectSeq(status_queue, LAMBDA m : m = "STATUS:RECORDING_START")

(***************************************************************************)
(* C39  Recording status alternation: the RECORDING_START and              *)
(* RECORDING_STOP messages on the status queue alternate strictly,         *)
(* beginning with RECORDING_START, and every 'STOP_SESSION' token on the   *)
(* control channel has the RECORDING_START of its recording on the status  *)
(* queue before it.                                                        *)
(***************************************************************************)
C39_StatusAlternation ==
    /\ \A i \in 1..Len(RecordingMessages) :
         RecordingMessages[i] = IF i % 2 = 1 THEN "STATUS:RECORDING_START"
                                ELSE "STATUS:RECORDING_STOP"
    /\ Len(inf_control_queue) <= Len(RecordingStarts)

(***************************************************************************)
(* Properties of the windower                                              *)
(***************************************************************************)
\* the core slice of a segment's extended timestamps and adc values
CoreTimestamps(seg) == Slice(seg.extended_timestamp_ms, seg.core_start_idx, seg.core_end_idx)
CoreAdc(seg) == Slice(seg.extended_adc_value, seg.core_start_idx, seg.core_end_idx)

\* ids 0, 1, ... in order, 1024 core samples each, start/end time from the core slice
WindowsWellFormed ==
    \A i \in 1..Len(emitted) :
        /\ emitted[i].segment_id = i - 1
        /\ emitted[i].sample_count = SEGMENT_SIZE
        /\ emitted[i].core_end_idx - emitted[i].core_start_idx = SEGMENT_SIZE
        /\ Len(CoreTimestamps(emitted[i])) = SEGMENT_SIZE
        /\ Len(CoreAdc(emitted[i])) = SEGMENT_SIZE
        /\ emitted[i].timestamp_ms = CoreTimestamps(emitted[i])
        /\ emitted[i].start_time = CoreTimestamps(emitted[i])[1]
        /\ emitted[i].end_time = CoreTimestamps(emitted[i])[SEGMENT_SIZE]

(***************************************************************************)
(* C5  Windowing invariant, as claimed: once the windower has consumed     *)
(* 4*K packets (K*1024 samples) it has emitted exactly K windows, with     *)
(* ids 0..K-1 in order, 1024 core samples each and start/end time equal    *)
(* to the first/last core timestamp.                                       *)
(***************************************************************************)
C5_WindowingInvariant ==
    packets_consumed % PACKETS_PER_SEGMENT = 0
        => /\ Len(emitted) = packets_consumed \div PACKETS_PER_SEGMENT
           /\ WindowsWellFormed

(***************************************************************************)
(* C5, amended: window K is cut only when its trailing overlap is there    *)
(* too, so after n packets exactly max(0, (n-1) div 4) windows were        *)
(* emitted (4*K packets give K-1 windows, 4*K+1 give K); ids, core size    *)
(* and start/end time are as claimed.                                      *)
(***************************************************************************)
C5_WindowingAmended ==
    /\ Len(emitted) = Max(0, (packets_consumed - 1) \div PACKETS_PER_SEGMENT)
    /\ segment_count = Len(emitted)
    /\ WindowsWellFormed

\* nine packets consumed: the second window has just been cut
C5_Witness ==
    /\ packets_consumed = 2 * PACKETS_PER_SEGMENT + 1
    /\ Len(emitted) = 2

(***************************************************************************)
(* C6  Zero loss or duplication in cores: core i of the emitted windows is *)
(* exactly samples [1024*i, 1024*(i+1)) of the samples of the packets put  *)
(* on the packet queue, timestamps and adc values alike.                   *)
(***************************************************************************)
C6_CoresPartitionStream ==
    \A i \in 1..Len(emitted) :
        /\ Len(sent) >= i * SEGMENT_SIZE
        /\ \A j \in 1..SEGMENT_SIZE :
              /\ CoreTimestamps(emitted[i])[j] = sent[(i - 1) * SEGMENT_SIZE + j][1]
              /\ CoreAdc(emitted[i])[j] = sent[(i - 1) * SEGMENT_SIZE + j][2]

\* two windows were emitted from a feed that lost a frame
C6_Witness ==
    /\ Len(emitted) >= 2
    /\ frames_lost > 0

(***************************************************************************)
(* C7  Extended-window length, as claimed: every emitted window, the first *)
(* one included, has 1536 extended samples: 256 leading, 1024 core, 256    *)
(* trailing.                                                               *)
(***************************************************************************)
C7_ExtendedLength ==
    \A i \in 1..Len(emitted) :
        /\ Len(emitted[i].extended_timestamp_ms) = EXTENDED_SEGMENT_SIZE
        /\ Len(emitted[i].extended_adc_value) = EXTENDED_SEGMENT_SIZE
        /\ emitted[i].core_start_idx = OVERLAP_SIZE
        /\ emitted[i].core_end_idx = OVERLAP_SIZE + SEGMENT_SIZE

(***************************************************************************)
(* C7, amended: every window after the first has 1536 extended samples     *)
(* (256 leading, 1024 core, 256 trailing); the first has no leading        *)
(* overlap: 1280 extended samples, the core at index 0, 256 trailing.      *)
(***************************************************************************)
C7_ExtendedLengthAmended ==
    \A i \in 1..Len(emitted) :
        LET lead == IF i = 1 THEN 0 ELSE OVERLAP_SIZE
        IN  /\ Len(emitted[i].extended_timestamp_ms) = lead + SEGMENT_SIZE + OVERLAP_SIZE
            /\ Len(emitted[i].extended_adc_value) = lead + SEGMENT_SIZE + OVERLAP_SIZE
            /\ emitted[i].core_start_idx = lead
            /\ emitted[i].core_end_idx = lead + SEGMENT_SIZE

\* a first and a later window are on record
C7_Witness ==
    /\ Len(emitted) >= 2
    /\ Len(emitted[1].extended_timestamp_ms) = SEGMENT_SIZE + OVERLAP_SIZE
    /\ Len(emitted[2].extended_timestamp_ms) = EXTENDED_SEGMENT_SIZE

(***************************************************************************)
(* C8  Extended-window timestamps: the samples put on the packet queue     *)
(* have strictly increasing timestamps, and so has every emitted extended  *)
(* window over its whole length.                                           *)
(***************************************************************************)
StrictlyIncreasing(seq) == \A j \in 1..(Len(seq) - 1) : seq[j] < seq[j + 1]

C8_ExtendedMonotonic ==
    (\A j \in 1..(Len(sent) - 1) : sent[j][1] < sent[j + 1][1])
        => \A i \in 1..Len(emitted) : StrictlyIncreasing(emitted[i].extended_timestamp_ms)

(***************************************************************************)
(* C9  Overlap continuity: the leading overlap of window i+1 (its first    *)
(* 256 extended samples, which end where its core starts) equals the last  *)
(* 256 samples of window i's extended buffer.                              *)
(***************************************************************************)
Trailing(seq) == SubSeq(seq, Len(seq) - OVERLAP_SIZE + 1, Len(seq))

C9_OverlapContinuity ==
    \A i \in 1..(Len(emitted) - 1) :
        /\ emitted[i + 1].core_start_idx = OVERLAP_SIZE
        /\ Slice(emitted[i + 1].extended_timestamp_ms, 0, OVERLAP_SIZE)
               = Trailing(emitted[i].extended_timestamp_ms)
        /\ Slice(emitted[i + 1].extended_adc_value, 0, OVERLAP_SIZE)
               = Trailing(emitted[i].extended_adc_value)

\* two consecutive windows are on record, the second with a full leading overlap
C9_Witness ==
    /\ Len(emitted) >= 2
    /\ emitted[2].segment_id = emitted[1].segment_id + 1
    /\ emitted[2].core_start_idx = OVERLAP_SIZE

(***************************************************************************)
(* Properties of the frame reader                                          *)
(***************************************************************************)
\* the six bytes of the stream that end at offset a are the marker
MarkerEndsAt(a) ==
    /\ a >= Len(MARKER)
    /\ \A j \in 1..Len(MARKER) : stream[a - Len(MARKER) + j] = MARKER[j]

\* the offset of the first marker of the stream: the length of the garbage ahead of it
FirstMarkerAt ==
    Least({a \in 0..(Len(stream) - Len(MARKER)) : MarkerEndsAt(a + Len(MARKER))})

\* the stream is whole frames back to back, every one led by the marker
CleanStream ==
    /\ Len(stream) % PACKET_SIZE = 0
    /\ \A k \in 0..((Len(stream) \div PACKET_SIZE) - 1) :
           MarkerEndsAt(k * PACKET_SIZE + Len(MARKER))

(***************************************************************************)
(* C1  Resynchronization at P: with 1..1000 bytes of marker-free garbage   *)
(* ahead of the marker at offset P and a whole payload behind it, all of   *)
(* it deliverable, the first _read_packet call returns exactly that        *)
(* payload and leaves the reader right behind it.                          *)
(***************************************************************************)
C1_ResyncAtP ==
    \A g \in {FirstMarkerAt} :
        (/\ read_calls = 1
         /\ g \in 1..RESYNC_BUDGET
         /\ last_lim >= g + PACKET_SIZE)
        => /\ last_ret = "packet"
           /\ pos = g + PACKET_SIZE
           /\ packet_queue = <<SubSeq(stream, g + Len(MARKER) + 1, g + PACKET_SIZE)>>

(***************************************************************************)
(* C3  No corrupt packet: every queued payload is exactly 1536 bytes of    *)
(* the stream that directly follow six bytes equal to the marker, and a    *)
(* _read_packet call that returns None queues nothing.                     *)
(***************************************************************************)
QueuedPayloadsFramed ==
    /\ Len(packet_at) = Len(packet_queue)
    /\ \A i \in 1..Len(packet_queue) :
          /\ Len(packet_queue[i]) = PACKET_DATA_SIZE
          /\ MarkerEndsAt(packet_at[i])
          /\ packet_at[i] + PACKET_DATA_SIZE <= Len(stream)
          /\ \A j \in 1..PACKET_DATA_SIZE :
                 packet_queue[i][j] = stream[packet_at[i] + j]

C3_NoCorruptPacket ==
    /\ []QueuedPayloadsFramed
    /\ [][(read_calls' # read_calls /\ last_ret' = "none")
             => packet_queue' = packet_queue]_vars

\* a packet was queued, and a later call lost synchronization and returned None
C3_Witness ==
    /\ Len(packet_queue) >= 1
    /\ last_ret = "none"
    /\ read_calls >= 2
    /\ \E i \in 1..Len(status_queue) : status_queue[i] = "WARN:sync_lost"

\* a payload read came up short, and nothing was queued for it
C3_WitnessShort ==
    /\ last_ret = "none"
    /\ \E i \in 1..Len(status_queue) : status_queue[i] = "WARN:incomplete_packet"

(***************************************************************************)
(* C4  Clean-stream framing: on a stream of whole frames back to back, the *)
(* n-th _read_packet call returns the n-th payload, every call consumes    *)
(* exactly 1542 bytes, and the reader never loses synchronization.         *)
(***************************************************************************)
C4_CleanStreamFraming ==
    CleanStream =>
        /\ pos = read_calls * PACKET_SIZE
        /\ Len(packet_queue) = read_calls
        /\ \A i \in 1..Len(packet_queue) :
              /\ Len(packet_queue[i]) = PACKET_DATA_SIZE
              /\ \A j \in 1..PACKET_DATA_SIZE :
                     packet_queue[i][j] = stream[(i - 1) * PACKET_SIZE + Len(MARKER) + j]
        /\ \A i \in 1..Len(status_queue) : status_queue[i] = "INFO:first_packet"
        /\ read_calls > 0 => (last_ret = "packet" /\ last_depth = 0)

\* every frame of a clean stream of at least two frames was read
C4_Witness ==
    /\ CleanStream
    /\ read_calls >= 2
    /\ read_calls * PACKET_SIZE = Len(stream)
    /\ Len(packet_queue) = read_calls

(***************************************************************************)
(* C2  Eventual recovery: once the reader has lost synchronization and     *)
(* the stream from then on is valid frames back to back (no further loss), *)
(* repeated read cycles eventually return a packet again.                  *)
(***************************************************************************)
C2_EventualRecovery ==
    (last_ret = "none" /\ drops = MaxDrops /\ packet_count < MaxPackets)
        ~> (last_ret = "packet")

(***************************************************************************)
(* Properties of the filter and inference stages                           *)
(***************************************************************************)
\* ids of the segments the inference loop dequeued, in order
TakenIds == [i \in 1..Len(taken) |-> taken[i].segment_id]

(***************************************************************************)
(* C11  Control-signal decoupling: whether 'STOP_SESSION' is seen before   *)
(* or after the last window of a recording, every window the inference     *)
(* loop dequeues is written to an open session (1024 rows to the signal    *)
(* file, one annotation row), and no window the filter put is lost: each   *)
(* is still queued or was dequeued and written.                            *)
(***************************************************************************)
C11_ControlDecoupling ==
    /\ \A i \in 1..Len(taken) :
          /\ taken[i].session # <<>>
          /\ taken[i].signal_rows = SEGMENT_SIZE
          /\ taken[i].annotation_rows = 1
    /\ Len(taken) + Len(inference_queue) = processed_count
    /\ session_active =>
          (signal_file # <<>> /\ filtered_file # <<>> /\ annotation_file # <<>>)

\* the token was seen before the recording's last window: that window was dequeued
\* with no session active, after the stop
C11_Witness ==
    /\ Len(taken) = 2
    /\ taken[2].after_stops = 1
    /\ taken[2].opened
    /\ inf_control_queue = <<>>

\* the token was seen after the recording's last window, and ended its session
C11_WitnessAfter ==
    /\ Len(taken) = 2
    /\ taken[2].after_stops = 1
    /\ ~taken[2].opened
    /\ inf_control_queue = <<>>
    /\ ~session_active

\* ids of the segments the filter took, and of those it passed on, in order
FilterIds == [i \in 1..Len(filter_log) |-> filter_log[i][1]]

RECURSIVE PassedOn(_)
PassedOn(log) ==
    IF log = <<>> THEN <<>>
    ELSE IF Head(log)[2] = "raises" THEN PassedOn(Tail(log))
         ELSE <<Head(log)[1]>> \o PassedOn(Tail(log))

IsPrefix(a, b) == Len(a) <= Len(b) /\ a = SubSeq(b, 1, Len(a))

(***************************************************************************)
(* C12  End-to-end FIFO order: the windows the inference stage processes   *)
(* come in strictly increasing segment_id order, and they are the windows  *)
(* the filter passed on, in order: with none dropped by the filter the     *)
(* ids are 0, 1, 2, ... without a gap.  The filter takes the windows in    *)
(* the order they were cut, a lost frame or not, and the order of the      *)
(* windows is the order of the samples put on the packet queue.            *)
(***************************************************************************)
C12_EndToEndFifo ==
    /\ StrictlyIncreasing(TakenIds)
    /\ IsPrefix(TakenIds, PassedOn(filter_log))
    /\ IsPrefix(FilterIds, [i \in 1..Len(emitted) |-> i - 1])
    /\ (\A i \in 1..Len(filter_log) : filter_log[i][2] # "raises")
          => TakenIds = [i \in 1..Len(taken) |-> i - 1]
    /\ \A i \in 1..Len(emitted) :
          emitted[i].start_time = sent[(i - 1) * SEGMENT_SIZE + 1][1]

\* two windows went through to the inference stage although a frame was lost
C12_Witness ==
    /\ frames_lost = 1
    /\ TakenIds = <<0, 1>>

\* the filter dropped window 0, and window 1 was processed
C12_WitnessGap ==
    /\ PassedOn(filter_log) = <<1>>
    /\ TakenIds = <<1>>

\* ids of the windows on the inference queue, oldest first
QueuedIds == [i \in 1..Len(inference_queue) |-> inference_queue[i].segment_id]

\* the filter's log entries of one outcome, and its reports of a failure
LoggedAs(outcome) == SelectSeq(filter_log, LAMBDA entry : entry[2] = outcome)

FilterErrors == SelectSeq(status_queue, LAMBDA m : m = "ERROR:filtering")

(***************************************************************************)
(* C17  Filter failure isolation: for every window whose processing raised *)
(* there is one ERROR on the status queue, the window is neither on the    *)
(* inference queue nor processed by the inference stage, processed_count   *)
(* counts the other windows only, and the windows after it are passed on.  *)
(***************************************************************************)
C17_FilterFailureIsolated ==
    /\ Len(FilterErrors) = Len(LoggedAs("raises"))
    /\ processed_count = Len(filter_log) - Len(LoggedAs("raises"))
    /\ TakenIds \o QueuedIds = PassedOn(filter_log)

\* window 0 raised in the filter, window 1 after it went through
C17_Witness ==
    /\ Len(filter_log) = 2
    /\ filter_log[1] = <<0, "raises">>
    /\ filter_log[2][2] = "finite"
    /\ processed_count = 1
    /\ QueuedIds = <<1>>

C19_ClassifierDegrades ==
    /\ \A i \in 1..Len(taken) :
          (taken[i].raised \/ interpreter = "None") =>
              /\ taken[i].prediction = DefaultPrediction
              /\ taken[i].signal_rows = SEGMENT_SIZE
              /\ taken[i].annotation_rows = 1
              /\ taken[i].inference_count = taken[i].count_before + 1
    /\ session_active =>
          /\ inference_count = Len(files[current_session[1]].rhythm)
          /\ samples_written = SEGMENT_SIZE * inference_count

\* two windows were processed, the second with an invocation that raised
C19_Witness ==
    /\ Len(taken) = 2
    /\ taken[2].raised
    /\ ~taken[1].raised
    /\ interpreter = "loaded"

\* two windows were processed without an interpreter
C19_WitnessMissing ==
    /\ Len(taken) = 2
    /\ interpreter = "None"

\* the recording was stopped and nothing of it is in flight any more: the token was
\* taken and the queues between the stages are empty
RecordingDrained ==
    /\ ~recording
    /\ stops > 0
    /\ inf_control_queue = <<>>
    /\ packet_queue = <<>>
    /\ segment_queue = <<>>
    /\ inference_queue = <<>>

(***************************************************************************)
(* C36  Inference session invariant: at the top of every iteration of      *)
(* inference_loop a session is active exactly when the signal, filtered    *)
(* and annotation files are all open, and they are all closed otherwise;   *)
(* while a session is active samples_written is 1024 times                 *)
(* inference_count, the session's signal file has that many rows and its   *)
(* annotation file one row per window.                                     *)
(***************************************************************************)
C36_SessionInvariant ==
    inf_pc = "control" =>
        /\ session_active <=>
              (signal_file # <<>> /\ filtered_file # <<>> /\ annotation_file # <<>>)
        /\ ~session_active =>
              (signal_file = <<>> /\ filtered_file = <<>> /\ annotation_file = <<>>)
        /\ session_active =>
              /\ samples_written = SEGMENT_SIZE * inference_count
              /\ Len(files[signal_file[1]].signal) = samples_written
              /\ Len(files[filtered_file[1]].filtered) = samples_written
              /\ Len(files[annotation_file[1]].rhythm) = inference_count

\* two windows were written to the session that is active
C36_Witness ==
    /\ inf_pc = "control"
    /\ session_active
    /\ inference_count = 2
    /\ samples_written = 2 * SEGMENT_SIZE

(***************************************************************************)
(* C37  Control token with no session: a step of the inference loop that   *)
(* takes a message from the control queue while no session is active       *)
(* consumes the message and changes nothing else: no file is opened or     *)
(* closed, nothing is put on the status queue, the counters and the        *)
(* inference queue stay as they are.                                       *)
(***************************************************************************)
C37_TokenWithoutSession ==
    [][(/\ inf_control_queue # <<>>
        /\ inf_control_queue' = Tail(inf_control_queue)
        /\ ~session_active)
       => UNCHANGED <<session_active, current_session, signal_file, filtered_file,
                      annotation_file, files, inference_count, samples_written,
                      status_queue, inference_queue, taken>>]_vars

\* the token of the recording was taken before any window had started a session
C37_Witness ==
    /\ stops = 1
    /\ inf_control_queue = <<>>
    /\ taken = <<>>
    /\ ~session_active
    /\ inf_pc = "segment"

(***************************************************************************)
(* C25  Session finalization: once a recording was stopped, its token was  *)
(* consumed and its windows in flight were processed, the inference stage  *)
(* has no open session.  (In such a state nothing but a later recording or *)
(* the end of the process can change the session, so that a session open   *)
(* then stays open.)                                                       *)
(***************************************************************************)
C25_SessionFinalized ==
    RecordingDrained =>
        /\ ~session_active
        /\ signal_file = <<>> /\ filtered_file = <<>> /\ annotation_file = <<>>

\* the session that received the i-th window processed: the number of sessions
\* started up to and including that window
RECURSIVE SessionOf(_)
SessionOf(i) ==
    IF i = 0 THEN 0
    ELSE SessionOf(i - 1) + (IF taken[i].opened THEN 1 ELSE 0)

(***************************************************************************)
(* C26  One session per recording: the windows of one recording (the       *)
(* pipeline model has a single START..STOP interval) are all written to    *)
(* the files of the same session.                                          *)
(***************************************************************************)
C26_OneSessionPerRecording ==
    \A i, j \in DOMAIN taken : SessionOf(i) = SessionOf(j)

\* the recording that sample n of `sent` belongs to
RecordingOfSample(n) == 1 + Cardinality({k \in DOMAIN rec_marks : rec_marks[k] < n})

\* the samples of `sent` that the extended window of the i-th segment is made of:
\* those behind the previous core up to the trailing overlap (the carried overlap
\* repeats the first of them)
WindowFirst(i) == (i - 1) * SEGMENT_SIZE + 1
WindowLast(i) == i * SEGMENT_SIZE + OVERLAP_SIZE

WindowIsItsSpan ==
    \A i \in DOMAIN emitted :
        /\ WindowLast(i) <= Len(sent)
        /\ LET span == SubSeq(sent, WindowFirst(i), WindowLast(i))
               samples == (IF i > 1 THEN SubSeq(span, 1, OVERLAP_SIZE) ELSE <<>>) \o span
           IN  /\ emitted[i].extended_timestamp_ms = [n \in DOMAIN samples |-> samples[n][1]]
               /\ emitted[i].extended_adc_value = [n \in DOMAIN samples |-> samples[n][2]]

(***************************************************************************)
(* C27  No cross-session window: every window the windower emits is made   *)
(* of samples of a single recording; what a stopped recording left in the  *)
(* segment buffer or the overlap buffer is not combined with samples of    *)
(* the next recording.                                                     *)
(***************************************************************************)
C27_NoCrossSessionWindow ==
    \A i \in DOMAIN emitted :
        RecordingOfSample(WindowFirst(i)) = RecordingOfSample(WindowLast(i))

(***************************************************************************)
(* C28  No packet after session end: once stop_acquisition has put the     *)
(* 'STOP_SESSION' token of a recording, the acquisition loop puts no       *)
(* further packet of that recording on the packet queue.                   *)
(***************************************************************************)
C28_NoPacketAfterSessionEnd ==
    \A i \in DOMAIN put_log : put_log[i].tokens < put_log[i].rec

(***************************************************************************)
(* C29  No stale packet at session start: every packet enqueued during a   *)
(* recording was read from bytes that arrived after the START command of   *)
(* that recording was written; what was waiting in the input buffer when   *)
(* start_acquisition began is never read by the acquisition loop.          *)
(***************************************************************************)
C29_NoStalePacket ==
    \A i \in DOMAIN put_log :
        put_log[i].flag => put_log[i].rec = put_log[i].starts

\* how often message m was put on the status queue
StatusCount(m) == Cardinality({i \in DOMAIN status_queue : status_queue[i] = m})

(***************************************************************************)
(* C30  Session finalization on shutdown: when the inference process has   *)
(* ended, by the shutdown condition or by an interrupt, every session it   *)
(* started was stopped by stop_session: the three files are closed and     *)
(* SAVED and SESSION_STOP were reported for it.                            *)
(***************************************************************************)
C30_SessionFinalizedOnShutdown ==
    worker_state["inference"] \in {"exited", "terminated"} =>
        /\ signal_file = <<>> /\ filtered_file = <<>> /\ annotation_file = <<>>
        /\ StatusCount("STATUS:SAVED") = StatusCount("STATUS:SESSION_START")
        /\ StatusCount("STATUS:SESSION_STOP") = StatusCount("STATUS:SESSION_START")

(***************************************************************************)
(* Properties of shutdown                                                  *)
(***************************************************************************)
(***************************************************************************)
(* C13  Shutdown responsiveness: once shutdown_pipeline has cleared        *)
(* running, no stage is still in its loop after the interval in which      *)
(* that happened and one more have passed, and no stage is ever            *)
(* force-terminated.                                                       *)
(***************************************************************************)
C13_ShutdownResponsive ==
    /\ \A w \in Stages : worker_state[w] # "terminated"
    /\ (~orch_running /\ elapsed >= 2) => \A w \in Stages : worker_state[w] # "loop"

(***************************************************************************)
(* Properties of one data queue                                            *)
(***************************************************************************)
\* the items put so far, in the order of the puts
ItemsPut == [i \in 1..put_count |-> i - 1]

(***************************************************************************)
(* C14  No queue operation blocks indefinitely: a producer inside put      *)
(* either has room in the queue, or has a consumer that is still running   *)
(* and will make room, so that it gets back to its loop condition.         *)
(***************************************************************************)
C14_PutNeverStuck ==
    put_pc = "put" => (PutHasRoom(chan) \/ consumer_alive)

(***************************************************************************)
(* C15  Backpressure: a data queue never holds more than QUEUE_MAXSIZE     *)
(* items, so the put that finds it full returns only after a get; the      *)
(* items received followed by the items queued are the items put, each     *)
(* once and in the order of the puts.                                      *)
(***************************************************************************)
C15_Backpressure ==
    /\ Len(chan) <= QUEUE_MAXSIZE
    /\ received \o chan = ItemsPut
    /\ put_count > QUEUE_MAXSIZE => Len(received) >= put_count - QUEUE_MAXSIZE

\* the put after QUEUE_MAXSIZE items has returned, the consumer having taken some
C15_Witness ==
    /\ put_count = QUEUE_MAXSIZE + 1
    /\ Len(received) >= 1
    /\ Len(chan) = QUEUE_MAXSIZE

\* the producer is inside put with the queue full and the consumer still running
C15_WitnessBlocked ==
    /\ put_pc = "put"
    /\ Len(chan) = QUEUE_MAXSIZE
    /\ consumer_alive

(***************************************************************************)
(* Properties of the Windower's end                                        *)
(***************************************************************************)
\* the status messages of the Windower's cleanup
CleanupReports ==
    SelectSeq(status_queue, LAMBDA m : m \in {"INFO:flushing_remaining_samples",
                                              "INFO:segmentation_terminated"})

QFinite(v) == v.den.range # 0 \/ v.den.eps

QZero(v) == QFinite(v) /\ v.num = 0

QOne(v) == v.den.range # 0 /\ ~v.den.eps /\ v.num = v.den.range

QInside(v) == /\ v.num > 0
              /\ \/ v.num < v.den.range
                 \/ v.num = v.den.range /\ v.den.eps

NormRange == SeqMax(norm_in) - SeqMin(norm_in)

(***************************************************************************)
(* C20  Normalization bounds, as stated: for a non-constant window the     *)
(* smallest returned value is exactly 0 and the largest is exactly 1; for  *)
(* a constant window every returned value is the finite number 0.          *)
(***************************************************************************)
C20_NormalizationBounds ==
    norm_out # <<>> =>
        IF NormRange # 0
        THEN /\ \E i \in 1..Len(norm_out) : QZero(norm_out[i])
             /\ \A i \in 1..Len(norm_out) : QZero(norm_out[i]) \/ QInside(norm_out[i])
                                               \/ QOne(norm_out[i])
             /\ \E i \in 1..Len(norm_out) : QOne(norm_out[i])
        ELSE \A i \in 1..Len(norm_out) : QZero(norm_out[i])

(***************************************************************************)
(* C20  Normalization bounds, amended: for a non-constant window the       *)
(* smallest returned value is exactly 0 and the largest is                 *)
(* (max - min) / (max - min + 1e-8), below 1 for every range under 2^27    *)
(* and exactly 1 only from there on; for a constant window every returned  *)
(* value is the finite number 0.                                           *)
(***************************************************************************)
C20_NormalizationAmended ==
    norm_out # <<>> =>
        /\ Len(norm_out) = Len(norm_in)
        /\ \A i \in 1..Len(norm_out) : QFinite(norm_out[i])
        /\ \E i \in 1..Len(norm_out) : QZero(norm_out[i])
        /\ IF NormRange = 0
           THEN \A i \in 1..Len(norm_out) : QZero(norm_out[i])
           ELSE /\ \A i \in 1..Len(norm_out) :
                     QZero(norm_out[i]) \/ QInside(norm_out[i]) \/ QOne(norm_out[i])
                /\ \A i \in 1..Len(norm_out) :
                     norm_in[i] = SeqMax(norm_in) =>
                        IF NormRange < FLOAT64_ABSORB
                        THEN QInside(norm_out[i]) /\ ~QOne(norm_out[i])
                        ELSE QOne(norm_out[i])

\* a non-constant window of small values was normalized
C20_Witness ==
    /\ norm_out # <<>>
    /\ NormRange > 0
    /\ NormRange < FLOAT64_ABSORB

\* a constant window was normalized
C20_WitnessConstant ==
    /\ norm_out # <<>>
    /\ NormRange = 0

(***************************************************************************)
(* Properties of the framing round trip                                    *)
(***************************************************************************)
RECURSIVE UnpackAll(_)
UnpackAll(packets) ==
    IF packets = <<>> THEN <<>>
    ELSE UnpackPacket(Head(packets)) \o UnpackAll(Tail(packets))

(***************************************************************************)
(* C21  Framing round trip: the samples unpacked so far, followed by the   *)
(* samples of the payloads still queued, are the samples the sender        *)
(* packed, in order; every payload holds 256 * 6 bytes.                    *)
(***************************************************************************)
C21_FramingRoundTrip ==
    /\ \A i \in 1..Len(packet_queue) : Len(packet_queue[i]) = PACKET_DATA_SIZE
    /\ segment_buffer \o UnpackAll(packet_queue) = sent
    /\ Len(sent) = packets_put * BUFFER_SIZE

\* two frames, the first with timestamps beyond three bytes, were packed and unpacked
C21_Witness ==
    /\ Len(sent) = 2 * BUFFER_SIZE
    /\ packet_queue = <<>>
    /\ segment_buffer = sent
    /\ sent[1][1] > 16777215
    /\ sent[2 * BUFFER_SIZE][2] > 255

(***************************************************************************)
(* Properties of the sender                                                *)
(***************************************************************************)
(***************************************************************************)
(* C22  Control text stays out of the frame stream: between two writes     *)
(* that belong to frames of one recording the sender writes no text line.  *)
(***************************************************************************)
C22_TextOutOfFrames ==
    \A i, j, k \in 1..Len(snd_out) :
        (/\ i < j /\ j < k
         /\ snd_out[i].kind # "text" /\ snd_out[k].kind # "text"
         /\ snd_out[i].rec = snd_out[k].rec)
        => snd_out[j].kind # "text"

(***************************************************************************)
(* C35  Windower buffer bound (every packet holds 256 samples): the        *)
(* segment buffer never holds more than 1280 samples, not even between the *)
(* extend and the cut; right after a cut it holds exactly 256 samples,     *)
(* the same as the overlap buffer; and no complete window is left pending  *)
(* in the buffer when an iteration ends.                                   *)
(***************************************************************************)
C35_BufferBound ==
    /\ [](/\ Len(segment_buffer) <= SEGMENT_SIZE + OVERLAP_SIZE
          /\ ~WindowReady(segment_buffer)
          /\ packet_queue # <<>> =>
                Len(segment_buffer) + Len(UnpackPacket(Head(packet_queue)))
                    <= SEGMENT_SIZE + OVERLAP_SIZE)
    /\ [][segment_count' # segment_count =>
             /\ Len(segment_buffer') = OVERLAP_SIZE
             /\ segment_buffer' = overlap_buffer']_vars

\* the second window has just been cut and the buffer holds the overlap alone
C35_Witness ==
    /\ segment_count = 2
    /\ Len(segment_buffer) = OVERLAP_SIZE
    /\ segment_buffer = overlap_buffer

(***************************************************************************)
(* C34  Sender frames are always full: every frame the sender writes is    *)
(* the marker followed by exactly 256 samples (1536 payload bytes), the    *)
(* last frame of a recording included.                                     *)
(***************************************************************************)
C34_FramesAlwaysFull ==
    \A i \in 1..Len(snd_out) :
        snd_out[i].kind = "marker" =>
            /\ i < Len(snd_out)
            /\ snd_out[i + 1].kind = "data"
            /\ snd_out[i + 1].size = BUFFER_SIZE * SAMPLE_BYTES

(***************************************************************************)
(* Properties of resynchronization                                         *)
(***************************************************************************)
(***************************************************************************)
(* C23  Bounded recursion: whatever the stream, one _read_packet call      *)
(* nests no deeper than the one call a resynchronization takes.            *)
(***************************************************************************)
C23_BoundedRecursion == last_depth <= 1

\* the last _find_marker call: the bytes it read, and whether the last six are the marker
ScanRead == scan[1].pos - scan[1].from

ScanEndsOnMarker ==
    /\ ScanRead >= Len(MARKER)
    /\ \A i \in 1..Len(MARKER) : stream[scan[1].pos - Len(MARKER) + i] = MARKER[i]

\* a marker ends n bytes into the scanned part of the stream
MarkerEndsInScan(n) ==
    \A i \in 1..Len(MARKER) : stream[scan[1].from + n - Len(MARKER) + i] = MARKER[i]

(***************************************************************************)
(* C24  Bounded resync attempt, as stated: a _find_marker call returns     *)
(* true only when the last six bytes it read are the marker, and a call    *)
(* that fails has read at most the 1000 bytes of the budget, fewer only    *)
(* when a read returned no byte.                                           *)
(***************************************************************************)
C24_BoundedScan ==
    scan # <<>> =>
        /\ scan[1].found => ScanEndsOnMarker
        /\ ~scan[1].found =>
              /\ ScanRead <= RESYNC_BUDGET
              /\ ScanRead < RESYNC_BUDGET => scan[1].pos = scan[1].lim

(***************************************************************************)
(* C24  Bounded resync attempt, amended: a _find_marker call returns true  *)
(* only when the last six bytes it read are the marker, and then no        *)
(* earlier marker was passed over; a call that fails has read at most      *)
(* 1001 bytes (one more than the budget), fewer only when a read returned  *)
(* no byte, and no marker ends within the first 1000 bytes it read.        *)
(***************************************************************************)
C24_BoundedScanAmended ==
    scan # <<>> =>
        /\ scan[1].from <= scan[1].pos /\ scan[1].pos <= Len(stream)
        /\ scan[1].found =>
              /\ ScanEndsOnMarker
              /\ ScanRead <= RESYNC_BUDGET
              /\ \A n \in Len(MARKER)..(ScanRead - 1) : ~MarkerEndsInScan(n)
        /\ ~scan[1].found =>
              /\ ScanRead <= RESYNC_BUDGET + 1
              /\ ScanRead < RESYNC_BUDGET + 1 => scan[1].pos = Max(scan[1].lim, scan[1].from)
              /\ \A n \in Len(MARKER)..Min(ScanRead, RESYNC_BUDGET) : ~MarkerEndsInScan(n)

\* a call gave up with the data not at its end
C24_Witness ==
    /\ scan # <<>>
    /\ ~scan[1].found
    /\ ScanRead = RESYNC_BUDGET + 1
    /\ scan[1].pos < scan[1].lim

\* a call found a marker behind some other bytes
C24_WitnessFound ==
    /\ scan # <<>>
    /\ scan[1].found
    /\ ScanRead > Len(MARKER)

(***************************************************************************)
(* Properties of the filter stage.                                         *)
(***************************************************************************)
FilterOrder(n) == <<<<"notch", n>>, <<"fir_lowpass", n>>, <<"iir_highpass", n>>>>

(***************************************************************************)
(* C31  Filter stage order: every value of the filtered core went through  *)
(* the notch, then the FIR low-pass, then the IIR high-pass, each applied  *)
(* to the whole extended array; the core [core_start_idx, core_end_idx) is *)
(* cut from the result of the three, and the normalization is applied to   *)
(* the filtered core alone.                                                *)
(***************************************************************************)
C31_FilterOrder ==
    flt_out # <<>> =>
        LET segment == flt_in[1]
            out == flt_out[1]
            n == Len(segment.extended_adc_value)
            core == segment.core_end_idx - segment.core_start_idx
        IN  /\ Len(out.filtered_signal) = core
            /\ Len(out.processed_signal) = core
            /\ \A j \in 1..core :
                  /\ out.filtered_signal[j].src = segment.core_start_idx + j - 1
                  /\ out.filtered_signal[j].ops = FilterOrder(n)
                  /\ out.processed_signal[j].src = segment.core_start_idx + j - 1
                  /\ out.processed_signal[j].ops =
                         Append(FilterOrder(n), <<"normalize", core>>)

\* a window with a leading overlap was processed
C31_Witness ==
    /\ flt_out # <<>>
    /\ flt_in[1].core_start_idx = OVERLAP_SIZE
    /\ Len(flt_in[1].extended_adc_value) = EXTENDED_SEGMENT_SIZE


(***************************************************************************)
(* C32  Filter stage pass-through: process_segment hands on segment_id,    *)
(* start_time, end_time, sample_count and the core timestamps as they      *)
(* came; raw_signal is extended_adc[core_start_idx:core_end_idx], the adc  *)
(* readings as sampled, so that raw_signal[j] and timestamp_ms[j] are the  *)
(* reading and the time of one and the same sample of the recording.       *)
(***************************************************************************)
C32_PassThrough ==
    flt_out # <<>> =>
        LET segment == flt_in[1]
            out == flt_out[1]
        IN  /\ out.segment_id = segment.segment_id
            /\ out.start_time = segment.start_time
            /\ out.end_time = segment.end_time
            /\ out.sample_count = segment.sample_count
            /\ out.timestamp_ms = segment.timestamp_ms
            /\ Len(out.raw_signal) = SEGMENT_SIZE
            /\ Len(out.timestamp_ms) = SEGMENT_SIZE
            /\ \A j \in 1..SEGMENT_SIZE :
                  /\ out.raw_signal[j] =
                         segment.extended_adc_value[segment.core_start_idx + j]
                  /\ out.timestamp_ms[j] =
                         segment.extended_timestamp_ms[segment.core_start_idx + j]
                  /\ \E t0 \in StartTimes :
                        LET n == segment.segment_id * SEGMENT_SIZE + j - 1
                        IN  /\ out.timestamp_ms[j] = SampleTime(t0, n)
                            /\ out.raw_signal[j] = SampleAdc(t0, n)

\* the third window of a recording went through process_segment
C32_Witness ==
    /\ flt_out # <<>>
    /\ flt_out[1].segment_id = 2
    /\ Len(flt_out[1].raw_signal) = SEGMENT_SIZE

(***************************************************************************)
(* C33  Filter coefficients are designed once: each of the design calls    *)
(* (iirnotch for the notch, remez for the FIR, ellipord and ellip for the  *)
(* elliptic high-pass) is made a single time, however many windows are     *)
(* processed.                                                              *)
(***************************************************************************)
DesignCalls(fn) == Cardinality({i \in DOMAIN lib_calls : lib_calls[i].fn = fn})

C33_DesignedOnce ==
    \A fn \in {"iirnotch", "remez", "ellipord", "ellip"} : DesignCalls(fn) <= 1

====
